---- MODULE Spec2Model ----
(***************************************************************************)
(* Root-cause correlation engine (src/ai-models/rca-engine): the service   *)
(* dependency graph, the three extractors, the temporal correlation, the   *)
(* ranking of the hypotheses and the dependency-chain query.               *)
(*                                                                         *)
(* Time is counted in whole minutes.  A confidence is counted in tenths    *)
(* (3 is 0.3, 9 is 0.9, 10 is 1.0).                                        *)
(***************************************************************************)
EXTENDS Integers, Sequences, FiniteSets, TLC

VARIABLES
    dependency_graph,   \* RCAEngine.dependency_graph: [nodes, edges]
    services,           \* the services list of the most recent build call
    builds,             \* number of build_dependency_graph calls so far
    chain,              \* last get_root_cause_chain call: [service, result]
    logs,               \* the logs table handed to correlate_events
    metrics,            \* the metrics table handed to correlate_events
    events,             \* the events table handed to correlate_events
    root_causes,        \* the list correlate_events returned last
    called,             \* whether correlate_events has returned since the last build
    pc,                 \* position of a build call that runs step by step
    todo,               \* graph insertions the running build call has left
    before,             \* the graph when the running build call started
    seen,               \* what a concurrent reader read last: [graph, old, new]
    raised,             \* whether the last correlate_events call raised instead of returning
    walk,               \* a get_root_cause_chain call that runs step by step
    work,               \* a correlate_events call whose loop runs one event at a time
    disk,               \* the file save_graph wrote: [gml, saved]
    timestamp_column,   \* whether each table handed to correlate_events has a timestamp column
    inference           \* the incident RCAInference.analyze_incident had last and its result

vars == <<dependency_graph, services, builds, chain, logs, metrics, events,
          root_causes, called, pc, todo, before, seen, raised, walk, work, disk,
          timestamp_column, inference>>

----------------------------------------------------------------------------
(* Sequences helpers *)

Range(s) == {s[i] : i \in 1..Len(s)}

SeqsUpTo(S, n) == UNION {[1..k -> S] : k \in 0..n}

RECURSIVE Flatten(_)
Flatten(ss) ==
    IF ss = <<>> THEN <<>> ELSE Head(ss) \o Flatten(Tail(ss))

----------------------------------------------------------------------------
(* The dependency graph: build_dependency_graph *)

Names == {"A", "B", "C", "D", "db", "api"}

EmptyGraph == [nodes |-> {}, edges |-> {}]

\* nx.DiGraph.add_node: the node is added to whatever the graph holds.
AddNode(g, n) == [g EXCEPT !.nodes = @ \cup {n}]

\* Mutant of AddEdge: an edge the graph already holds is taken off.
AddEdgeToggle(g, u, v) ==
    [nodes |-> g.nodes \cup {u, v},
     edges |-> IF <<u, v>> \in g.edges THEN g.edges \ {<<u, v>>}
               ELSE g.edges \cup {<<u, v>>}]

\* nx.DiGraph.add_edge(u, v): both end points become nodes, the edge u -> v
\* (dependency -> dependent) is added.
AddEdge(g, u, v) ==
    [nodes |-> g.nodes \cup {u, v}, edges |-> g.edges \cup {<<u, v>>}]

\* The insertions one service descriptor makes, in the order of the loop body:
\* add_node(name), then add_edge(dep, name) for each dependency.
ServiceSteps(service) ==
    <<[op |-> "node", u |-> service.name, v |-> service.name]>> \o
    [k \in 1..Len(service.dependencies) |->
        [op |-> "edge", u |-> service.dependencies[k], v |-> service.name]]

\* The insertions of a whole build call, in program order.
BuildSteps(svcs) == Flatten([k \in 1..Len(svcs) |-> ServiceSteps(svcs[k])])

ApplyStep(g, st) ==
    IF st.op = "node" THEN AddNode(g, st.u) ELSE AddEdge(g, st.u, st.v)

RECURSIVE ApplySteps(_, _)
ApplySteps(g, steps) ==
    IF steps = <<>> THEN g
    ELSE ApplySteps(ApplyStep(g, Head(steps)), Tail(steps))

\* build_dependency_graph(services) run to completion on graph g: the loop
\* inserts into self.dependency_graph, which is never cleared or replaced.
BuildDependencyGraph(g, svcs) == ApplySteps(g, BuildSteps(svcs))

----------------------------------------------------------------------------
(* Dependency chain: get_root_cause_chain *)

Predecessors(g, n) == {e[1] : e \in {x \in g.edges : x[2] = n}}

\* Nodes at distance <= k from n along edges followed backward.
RECURSIVE BackReach(_, _, _)
BackReach(g, n, k) ==
    IF k = 0 THEN {n}
    ELSE LET prev == BackReach(g, n, k - 1)
         IN  prev \cup UNION {Predecessors(g, m) : m \in prev}

\* Mutant of NxAncestors: the direct predecessors only.
NxAncestorsDirectOnly(g, n) == Predecessors(g, n) \ {n}

\* nx.ancestors(G, n): every node with a path to n, n itself excluded.
NxAncestors(g, n) == BackReach(g, n, Cardinality(g.nodes)) \ {n}

\* nx.shortest_path_length(G, a, n): the number of edges on a shortest path.
ShortestPathLength(g, a, n) ==
    CHOOSE k \in 0..Cardinality(g.nodes) :
        /\ a \in BackReach(g, n, k)
        /\ \A j \in 0..(k - 1) : a \notin BackReach(g, n, j)

Perms(S) ==
    {f \in [1..Cardinality(S) -> S] : \A i, j \in 1..Cardinality(S) : f[i] = f[j] => i = j}

RECURSIVE InsertByDepth(_, _, _, _)
InsertByDepth(g, n, a, sorted) ==
    IF sorted = <<>> THEN <<a>>
    ELSE IF ShortestPathLength(g, a, n) < ShortestPathLength(g, Head(sorted), n)
         THEN <<a>> \o sorted
         ELSE <<Head(sorted)>> \o InsertByDepth(g, n, a, Tail(sorted))

\* sorted(depths.items(), key=depth): a stable sort of the list it is given.
RECURSIVE SortByDepth(_, _, _)
SortByDepth(g, n, listed) ==
    IF listed = <<>> THEN <<>>
    ELSE InsertByDepth(g, n, listed[Len(listed)],
                       SortByDepth(g, n, SubSeq(listed, 1, Len(listed) - 1)))

\* get_root_cause_chain(service): the lists the call can return.  list(set)
\* enumerates the ancestor set in the set's iteration order, which for strings
\* depends on the interpreter's hash seed: every enumeration order is possible.
GetRootCauseChain(g, service) ==
    IF service \notin g.nodes THEN {<<>>}
    ELSE {SortByDepth(g, service, listed) : listed \in Perms(NxAncestors(g, service))}

----------------------------------------------------------------------------
(* Extractors: _find_critical_events, _extract_log_errors,                 *)
(* _classify_error_severity, _detect_metric_anomalies                      *)

\* An event row is [timestamp, type, reason, object]; object is the reference
\* split at '/', so <<"pod", "D">> is "pod/D", <<"D">> holds no '/' and <<"">>
\* is the empty text.  A missing cell of the object column is NaN, no text.
critical_types ==
    {"PodCrashLoopBackOff", "PodEvicted", "NodeNotReady", "FailedScheduling",
     "ImagePullBackOff"}

\* Mutant of IsCritical: only the type of the event is looked at.
IsCriticalByType(row) == row.type = "Warning"

\* event_type == 'Warning' or reason in critical_types
IsCritical(row) == row.type = "Warning" \/ row.reason \in critical_types

CriticalEvent(row) ==
    [timestamp |-> row.timestamp, type |-> row.type, reason |-> row.reason,
     object |-> row.object,
     severity |-> IF row.reason \in critical_types THEN "critical" ELSE "high"]

RECURSIVE FindCriticalEvents(_)
FindCriticalEvents(rows) ==
    IF rows = <<>> THEN <<>>
    ELSE (IF IsCritical(Head(rows)) THEN <<CriticalEvent(Head(rows))>> ELSE <<>>)
         \o FindCriticalEvents(Tail(rows))

\* A log row is [timestamp, service, message]; a message is the set of phrases
\* its text holds, as they are written.  "kw in log_message" is a substring
\* test on the lower-cased text.
\* Mutant of error_keywords: the severity phrases count as error keywords.
error_keywords_and_phrases ==
    {"error", "exception", "failed", "timeout", "crash", "panic", "fatal", "critical",
     "out of memory", "connection refused", "database error"}

error_keywords ==
    {"error", "exception", "failed", "timeout", "crash", "panic", "fatal", "critical"}

critical_keywords == {"fatal", "panic", "crash", "out of memory"}

high_keywords == {"timeout", "connection refused", "database error"}

\* str.lower() of a phrase.
LowerPhrase(phrase) ==
    CASE phrase = "FATAL" -> "fatal"
      [] phrase = "Timeout" -> "timeout"
      [] phrase = "Connection Refused" -> "connection refused"
      [] phrase = "Out Of Memory" -> "out of memory"
      [] OTHER -> phrase

\* message.lower()
Lower(message) == {LowerPhrase(phrase) : phrase \in message}

IsSubstring(kw, phrase) == kw = phrase \/ (kw = "error" /\ phrase = "database error")

Contains(message, kw) == \E phrase \in message : IsSubstring(kw, phrase)

\* Mutant of ClassifyErrorSeverity: the high phrases are looked for first.
ClassifyErrorSeverityHighFirst(message) ==
    LET message_lower == Lower(message)
    IN  IF \E kw \in high_keywords : Contains(message_lower, kw) THEN "high"
        ELSE IF \E kw \in critical_keywords : Contains(message_lower, kw) THEN "critical"
        ELSE "medium"

\* _classify_error_severity(message)
ClassifyErrorSeverity(message) ==
    LET message_lower == Lower(message)
    IN  IF \E kw \in critical_keywords : Contains(message_lower, kw) THEN "critical"
        ELSE IF \E kw \in high_keywords : Contains(message_lower, kw) THEN "high"
        ELSE "medium"

ErrorRecord(row) ==
    [timestamp |-> row.timestamp, service |-> row.service, message |-> row.message,
     severity |-> ClassifyErrorSeverity(Lower(row.message))]

RECURSIVE ExtractLogErrors(_)
ExtractLogErrors(rows) ==
    IF rows = <<>> THEN <<>>
    ELSE (IF \E kw \in error_keywords : Contains(Lower(Head(rows).message), kw)
          THEN <<ErrorRecord(Head(rows))>> ELSE <<>>)
         \o ExtractLogErrors(Tail(rows))

\* A metrics table is [columns, rows]; a row is [timestamp, vals], vals giving
\* each column's sample: <<v>> for the number v, NaN for a missing or
\* non-numeric one.
NaN == <<>>

RECURSIVE SumSeq(_)
SumSeq(s) == IF s = <<>> THEN 0 ELSE Head(s) + SumSeq(Tail(s))

\* values = to_numeric(column).values; values = values[~isnan(values)]
ColumnValues(table, col) ==
    Flatten([i \in 1..Len(table.rows) |-> table.rows[i].vals[col]])

\* n * n * variance of the samples (np.std is the population deviation).
ScaledVariance(values) ==
    Len(values) * SumSeq([i \in 1..Len(values) |-> values[i] * values[i]])
        - SumSeq(values) * SumSeq(values)

\* Mutant of Exceeds: a value on the threshold exceeds it.
ExceedsOrEquals(values, v, k) ==
    LET d == Len(values) * v - SumSeq(values)
    IN  d > 0 /\ d * d >= k * k * ScaledVariance(values)

\* v > mean + k * std, over the integers: with n samples of sum S,
\* n * v - S > k * sqrt(n * n * variance).
Exceeds(values, v, k) ==
    LET d == Len(values) * v - SumSeq(values)
    IN  d > 0 /\ d * d > k * k * ScaledVariance(values)

\* The anomalies of one column.  idx indexes the filtered values, and the
\* timestamp is read from metrics.iloc[idx], the idx-th row of the table.
ColumnAnomalies(table, col) ==
    LET values == ColumnValues(table, col)
        flagged == SelectSeq([i \in 1..Len(values) |-> i],
                             LAMBDA i : Exceeds(values, values[i], 3))
    IN  IF Len(values) = 0 \/ ScaledVariance(values) = 0 THEN <<>>
        ELSE [j \in 1..Len(flagged) |->
                [timestamp |-> table.rows[flagged[j]].timestamp,
                 metric |-> col,
                 value |-> values[flagged[j]],
                 severity |-> IF Exceeds(values, values[flagged[j]], 5)
                              THEN "high" ELSE "medium"]]

DetectMetricAnomalies(table) ==
    IF table.rows = <<>> THEN <<>>
    ELSE Flatten([c \in 1..Len(table.columns) |-> ColumnAnomalies(table, table.columns[c])])

----------------------------------------------------------------------------
(* Correlation and ranking: correlate_events, _build_root_cause *)

\* RCAEngine.__init__: temporal_window = timedelta(minutes=5)
temporal_window == 5

\* A timestamp cell is a time in whole minutes, or one of two values that are
\* no time.  NaT is what pd.to_datetime makes of a missing cell (None, NaN, an
\* empty field); pandas keeps it as the least integer, here a number below
\* every time.  Unparsable is a text pd.to_datetime does not accept.
NaT == -1000000
Unparsable == -2000000

\* logs['timestamp'], metrics['timestamp'], events['timestamp']: indexing a
\* table that has no timestamp column raises KeyError out of correlate_events.
TimestampKeyError(has_column) ==
    ~has_column.logs \/ ~has_column.metrics \/ ~has_column.events

\* table['timestamp'] = pd.to_datetime(table['timestamp']) for the three
\* tables: times stay, missing cells become NaT, and one cell that cannot be
\* parsed raises out of correlate_events.
ToDatetimeRaises(log_rows, metric_table, event_rows) ==
    \/ \E r \in Range(log_rows) : r.timestamp = Unparsable
    \/ \E r \in Range(metric_table.rows) : r.timestamp = Unparsable
    \/ \E r \in Range(event_rows) : r.timestamp = Unparsable

\* Mutant of InWindow: the end of the window is left out.
InWindowOpenEnd(ts, event_time) ==
    /\ ts # NaT /\ event_time # NaT
    /\ event_time - temporal_window <= ts /\ ts < event_time + temporal_window

\* window_start <= ts <= window_end; every comparison with NaT is False, and
\* NaT minus or plus the window is NaT.
InWindow(ts, event_time) ==
    /\ ts # NaT /\ event_time # NaT
    /\ event_time - temporal_window <= ts /\ ts <= event_time + temporal_window

Related(records, event_time) ==
    SelectSeq(records, LAMBDA r : InWindow(r.timestamp, event_time))

\* Mutant of AffectedService: the segment before the first '/' is taken.
AffectedServiceFirstSegment(object) ==
    IF Len(object) >= 2 THEN object[1] ELSE "unknown"

\* object.split('/')[-1] if '/' in object else 'unknown'
AffectedService(object) ==
    IF Len(object) >= 2 THEN object[Len(object)] ELSE "unknown"

\* Mutant of UpstreamServices: a service the graph does not know is taken to
\* depend on every service it knows.
UpstreamServicesUnknownOnAll(g, affected) ==
    IF affected \in g.nodes THEN Predecessors(g, affected) ELSE g.nodes

\* list(dependency_graph.predecessors(affected)) if affected is a node, else []
UpstreamServices(g, affected) ==
    IF affected \in g.nodes THEN Predecessors(g, affected) ELSE {}

Min(a, b) == IF a <= b THEN a ELSE b

\* Mutant of BaseConfidence: the cap at 0.9 is missing.
BaseConfidenceUncapped(evidence_count) == 3 + evidence_count

\* min(0.9, 0.3 + evidence_count * 0.1), in tenths
BaseConfidence(evidence_count) == Min(9, 3 + evidence_count)

\* Mutant of FinalConfidence: the clamp at 1.0 is missing.
FinalConfidenceUnclamped(confidence) == confidence

\* 'confidence': min(1.0, confidence), in tenths
FinalConfidence(confidence) == Min(10, confidence)

\* The errors of the direct upstream services, in evidence order.
UpstreamErrors(upstream_services, errors) ==
    SelectSeq(errors, LAMBDA e : e.service \in upstream_services)

\* Mutant of RootCauseService: the first error record is taken, upstream or not.
RootCauseServiceFirstError(affected_service, upstream_services, errors) ==
    IF upstream_services # {} /\ UpstreamErrors(upstream_services, errors) # <<>>
    THEN errors[1].service
    ELSE affected_service

\* root_cause_service: the affected service, or the service of the first
\* error record that comes from one of upstream_services.
RootCauseService(affected_service, upstream_services, errors) ==
    IF upstream_services # {} /\ UpstreamErrors(upstream_services, errors) # <<>>
    THEN UpstreamErrors(upstream_services, errors)[1].service
    ELSE affected_service

\* "key in reason" for the reason codes the events carry.
ReasonContains(reason, key) ==
    \/ reason = key
    \/ key = "CrashLoopBackOff" /\ reason = "PodCrashLoopBackOff"
    \/ key = "Evicted" /\ reason = "PodEvicted"
    \/ key = "NotReady" /\ reason = "NodeNotReady"

\* A recommendation is the text of its rule, with the metric or the message
\* the text cites ("" and {} when it cites none).  The messages are shorter
\* than the 100 characters the text keeps of them.
Recommendation(text, metric, message) ==
    [text |-> text, metric |-> metric, message |-> message]

\* Mutant of GenerateRecommendation: the evidence is looked at before the
\* reason code.
GenerateRecommendationEvidenceFirst(event, anomalies, errors) ==
    LET reason == event.reason
    IN  IF anomalies # <<>>
        THEN Recommendation("Metric anomaly detected", anomalies[1].metric, {})
        ELSE IF errors # <<>>
        THEN Recommendation("Error in logs", "", errors[1].message)
        ELSE IF ReasonContains(reason, "CrashLoopBackOff")
        THEN Recommendation("Check pod logs for startup errors", "", {})
        ELSE IF ReasonContains(reason, "Evicted")
        THEN Recommendation("Pod was evicted due to resource pressure", "", {})
        ELSE IF ReasonContains(reason, "NotReady")
        THEN Recommendation("Node is not ready", "", {})
        ELSE IF ReasonContains(reason, "FailedScheduling")
        THEN Recommendation("Pod cannot be scheduled", "", {})
        ELSE Recommendation("Investigate service health and dependencies", "", {})

\* _generate_recommendation(event, anomalies, errors)
GenerateRecommendation(event, anomalies, errors) ==
    LET reason == event.reason
    IN  IF ReasonContains(reason, "CrashLoopBackOff")
        THEN Recommendation("Check pod logs for startup errors", "", {})
        ELSE IF ReasonContains(reason, "Evicted")
        THEN Recommendation("Pod was evicted due to resource pressure", "", {})
        ELSE IF ReasonContains(reason, "NotReady")
        THEN Recommendation("Node is not ready", "", {})
        ELSE IF ReasonContains(reason, "FailedScheduling")
        THEN Recommendation("Pod cannot be scheduled", "", {})
        ELSE IF anomalies # <<>>
        THEN Recommendation("Metric anomaly detected", anomalies[1].metric, {})
        ELSE IF errors # <<>>
        THEN Recommendation("Error in logs", "", errors[1].message)
        ELSE Recommendation("Investigate service health and dependencies", "", {})

\* '/' in event.get('object', ''): a missing cell is a float, which has no
\* "in", and TypeError leaves _build_root_cause and correlate_events.
BuildRootCauseRaises(event) == event.object = NaN

BuildRootCause(g, event, anomalies, errors) ==
    LET affected_service == AffectedService(event.object)
        upstream_services == UpstreamServices(g, affected_service)
        evidence_count == Len(anomalies) + Len(errors)
        found == upstream_services # {}
                 /\ UpstreamErrors(upstream_services, errors) # <<>>
        confidence == BaseConfidence(evidence_count) + (IF found THEN 2 ELSE 0)
    IN  [root_cause |-> RootCauseService(affected_service, upstream_services, errors),
         affected_service |-> affected_service,
         event |-> event,
         related_anomalies |-> anomalies,
         related_errors |-> errors,
         upstream_services |-> upstream_services,
         confidence |-> FinalConfidence(confidence),
         severity |-> event.severity,
         timestamp |-> event.timestamp,
         recommendation |-> GenerateRecommendation(event, anomalies, errors)]

\* Mutant of HasEvidence: every critical event yields a hypothesis.
HasEvidenceAlways(related_anomalies, related_errors) == TRUE

\* if related_anomalies or related_errors
HasEvidence(related_anomalies, related_errors) ==
    related_anomalies # <<>> \/ related_errors # <<>>

\* The body of the loop for one critical event: what it appends to root_causes.
CorrelateOne(g, event, anomalies, errors) ==
    LET related_anomalies == Related(anomalies, event.timestamp)
        related_errors == Related(errors, event.timestamp)
    IN  IF HasEvidence(related_anomalies, related_errors)
        THEN <<BuildRootCause(g, event, related_anomalies, related_errors)>>
        ELSE <<>>

\* The loop over the critical events: one hypothesis per event with evidence.
RECURSIVE Correlate(_, _, _, _)
Correlate(g, critical_events, anomalies, errors) ==
    IF critical_events = <<>> THEN <<>>
    ELSE LET event == Head(critical_events)
             related_anomalies == Related(anomalies, event.timestamp)
             related_errors == Related(errors, event.timestamp)
         IN  (IF HasEvidence(related_anomalies, related_errors)
              THEN <<BuildRootCause(g, event, related_anomalies, related_errors)>>
              ELSE <<>>)
             \o Correlate(g, Tail(critical_events), anomalies, errors)

\* The loop stops at the first critical event with evidence whose hypothesis
\* cannot be built.
CorrelateRaises(log_rows, metric_table, event_rows) ==
    LET critical_events == FindCriticalEvents(event_rows)
        anomalies == DetectMetricAnomalies(metric_table)
        errors == ExtractLogErrors(log_rows)
    IN  \E i \in 1..Len(critical_events) :
            /\ BuildRootCauseRaises(critical_events[i])
            /\ HasEvidence(Related(anomalies, critical_events[i].timestamp),
                           Related(errors, critical_events[i].timestamp))

\* Python compares the severity strings character by character: their
\* position in alphabetical order.
StrOrder(s) ==
    CASE s = "critical" -> 1
      [] s = "high" -> 2
      [] s = "low" -> 3
      [] s = "medium" -> 4

\* (x.severity, x.confidence) > (y.severity, y.confidence) as Python tuples
KeyGreater(x, y) ==
    \/ StrOrder(x.severity) > StrOrder(y.severity)
    \/ x.severity = y.severity /\ x.confidence > y.confidence

\* Mutant of InsertRanked: x goes in front of the hypotheses it ties with.
RECURSIVE InsertRankedBeforeTies(_, _)
InsertRankedBeforeTies(x, ranked) ==
    IF ranked = <<>> THEN <<x>>
    ELSE IF ~KeyGreater(Head(ranked), x) THEN <<x>> \o ranked
         ELSE <<Head(ranked)>> \o InsertRankedBeforeTies(x, Tail(ranked))

\* sorted(..., reverse=True) is stable: x goes behind everything not below it.
RECURSIVE InsertRanked(_, _)
InsertRanked(x, ranked) ==
    IF ranked = <<>> THEN <<x>>
    ELSE IF KeyGreater(x, Head(ranked)) THEN <<x>> \o ranked
         ELSE <<Head(ranked)>> \o InsertRanked(x, Tail(ranked))

\* Mutant of SortRanked: the list is returned as the loop left it.
SortRankedNot(hyps) == hyps

RECURSIVE SortRanked(_)
SortRanked(hyps) ==
    IF hyps = <<>> THEN <<>>
    ELSE InsertRanked(hyps[Len(hyps)], SortRanked(SubSeq(hyps, 1, Len(hyps) - 1)))

\* correlate_events(logs, metrics, events) on graph g
CorrelateEvents(g, log_rows, metric_table, event_rows) ==
    SortRanked(Correlate(g, FindCriticalEvents(event_rows),
                         DetectMetricAnomalies(metric_table),
                         ExtractLogErrors(log_rows)))

----------------------------------------------------------------------------
(* Topologies handed to build_dependency_graph *)

Svc(n, deps) == [name |-> n, dependencies |-> deps]

\* RCAInference._load_services: the topology RCAInference builds at construction.
DefaultServices ==
    <<Svc("payment-service", <<"database", "redis">>),
      Svc("emr-api", <<"database">>)>>

Diamond ==
    <<Svc("A", <<>>), Svc("B", <<"A">>), Svc("C", <<"A">>), Svc("D", <<"B", "C">>)>>

DbApi == <<Svc("db", <<>>), Svc("api", <<"db">>)>>

Cycle == <<Svc("A", <<"B">>), Svc("B", <<"A">>)>>

Chain3 == <<Svc("C", <<"B">>), Svc("B", <<"A">>)>>

GenericNames == {"A", "B", "C"}

\* One service with at most one dependency (possibly itself).
SingleServiceLists ==
    {<<Svc(n, <<>>)>> : n \in GenericNames} \cup
    {<<Svc(n, <<d>>)>> : n \in GenericNames, d \in GenericNames}

ServiceLists ==
    {<<>>, Diamond, DbApi, Cycle, Chain3, DefaultServices} \cup SingleServiceLists

\* Names a caller asks get_root_cause_chain about; "ghost" is in no topology.
QueryNames == Names \cup {"payment-service", "ghost"}

MaxBuilds == 2

NoChain == [service |-> "", result |-> <<>>]
NoTable == <<>>
NoMetrics == [columns |-> <<>>, rows |-> <<>>]
NoSeen == [graph |-> EmptyGraph, old |-> EmptyGraph, new |-> EmptyGraph]
NoWalk == [state |-> "idle", service |-> "", visited |-> {}, queue |-> <<>>, expanded |-> <<>>]
NoWork == [state |-> "idle", pending |-> {}, root_causes |-> <<>>]
NoFile == [directed |-> 0, node |-> {}, edge |-> {}]
NoDisk == [gml |-> NoFile, saved |-> EmptyGraph]
AllTimestamped == [logs |-> TRUE, metrics |-> TRUE, events |-> TRUE]
NoSeverity == [kind |-> "none", text |-> "", number |-> 0]
NoAnalysis ==
    [state |-> "idle", service |-> "", anomalies |-> <<>>, root_cause |-> "",
     confidence |-> 0, severity |-> NoSeverity, affected_service |-> "",
     related_anomalies |-> <<>>, all_root_causes |-> <<>>]

----------------------------------------------------------------------------
(* Operations on the engine, each call run to completion *)

\* RCAEngine.build_dependency_graph(svcs); RCAInference.update_services(svcs)
\* is the same call on its engine.
build_dependency_graph(svcs) ==
    /\ pc = "idle"
    /\ builds < MaxBuilds
    /\ dependency_graph' = BuildDependencyGraph(dependency_graph, svcs)
    /\ services' = svcs
    /\ builds' = builds + 1
    /\ chain' = NoChain
    /\ root_causes' = <<>>
    /\ called' = FALSE
    /\ raised' = FALSE
    /\ UNCHANGED <<logs, metrics, events, pc, todo, before, seen, walk, work, disk,
                   timestamp_column, inference>>

\* RCAEngine.get_root_cause_chain(service)
get_root_cause_chain(service) ==
    /\ pc = "idle"
    /\ \E result \in GetRootCauseChain(dependency_graph, service) :
           chain' = [service |-> service, result |-> result]
    /\ UNCHANGED <<dependency_graph, services, builds, logs, metrics, events,
                   root_causes, called, pc, todo, before, seen, raised, walk, work, disk,
                   timestamp_column, inference>>

\* RCAEngine(): an empty graph.
InitEngine ==
    /\ dependency_graph = EmptyGraph
    /\ services = <<>>

\* RCAInference(): the engine with the default services built.
InitInference ==
    /\ dependency_graph = BuildDependencyGraph(EmptyGraph, DefaultServices)
    /\ services = DefaultServices

InitIdle ==
    /\ builds = 0
    /\ chain = NoChain
    /\ root_causes = <<>>
    /\ called = FALSE
    /\ pc = "idle"
    /\ todo = <<>>
    /\ before = EmptyGraph
    /\ seen = NoSeen
    /\ raised = FALSE
    /\ walk = NoWalk
    /\ work = NoWork
    /\ disk = NoDisk
    /\ inference = NoAnalysis

\* No call is under way, and the tables have their timestamp columns.
InitRest ==
    /\ InitIdle
    /\ timestamp_column = AllTimestamped

InitGraph ==
    /\ InitEngine \/ InitInference
    /\ InitRest
    /\ logs = NoTable
    /\ metrics = NoMetrics
    /\ events = NoTable

NextGraph ==
    \/ \E svcs \in ServiceLists : build_dependency_graph(svcs)
    \/ \E service \in QueryNames : get_root_cause_chain(service)

\* Topology updates and chain queries, no correlation.
SpecGraph == InitGraph /\ [][NextGraph]_vars

----------------------------------------------------------------------------
(* Tables handed to correlate_events *)

MaxEvents == 2
MaxLogs == 2
MaxBurst == 7
MetricRows == 11

\* Event times and record times that put records on both ends of a window
\* and one minute outside of it.
EventTimes == {0, 2 * temporal_window + 1}
RecordTimes == {temporal_window, temporal_window + 1}

EventRow(t, ty, r, obj) == [timestamp |-> t, type |-> ty, reason |-> r, object |-> obj]

EventRows ==
    {EventRow(t, k[1], k[2], obj) :
        t \in EventTimes,
        k \in {<<"Warning", "Unhealthy">>, <<"Normal", "PodEvicted">>},
        obj \in {<<"pod", "D">>, <<"D">>}}
    \cup {EventRow(t, "Normal", "Started", <<"pod", "D">>) : t \in EventTimes}

LogRow(t, svc, msg) == [timestamp |-> t, service |-> svc, message |-> msg]

LogRows ==
    {LogRow(t, svc, {"timeout"}) : t \in RecordTimes, svc \in {"A", "B", "C"}}
    \cup {LogRow(temporal_window, "B", {})}

\* One row a minute from minute 0; every sample is 50 but the spike of a
\* column, which is 95 (spikes[c] = 0: the column is flat).  The spikes are
\* put at minute 0 and at the record times.
MetricsTable(cols, spikes) ==
    [columns |-> cols,
     rows |-> [i \in 1..MetricRows |->
                 [timestamp |-> i - 1,
                  vals |-> [c \in Range(cols) |-> IF spikes[c] = i THEN <<95>> ELSE <<50>>]]]]

SpikeRows == {0, 1} \cup {t + 1 : t \in RecordTimes}

OneColumnTables ==
    {MetricsTable(<<"cpu_usage">>, [c \in {"cpu_usage"} |-> r]) : r \in SpikeRows}

TwoColumnTables ==
    {MetricsTable(<<"cpu_usage", "memory_usage">>,
                  [c \in {"cpu_usage", "memory_usage"} |->
                      IF c = "cpu_usage" THEN temporal_window + 1 ELSE r]) :
        r \in SpikeRows}

\* Many events over little evidence.
RankInputs ==
    {<<l, m, e>> :
        l \in {<<>>,
               <<LogRow(temporal_window, "B", {"timeout"})>>,
               <<LogRow(temporal_window, "A", {"timeout"}),
                 LogRow(temporal_window + 1, "B", {"timeout"})>>,
               <<LogRow(temporal_window + 1, "C", {"timeout"}),
                 LogRow(temporal_window + 1, "B", {"timeout"})>>},
        m \in {NoMetrics, MetricsTable(<<"cpu_usage">>,
                                        [c \in {"cpu_usage"} |-> temporal_window + 2])},
        e \in SeqsUpTo(EventRows, MaxEvents)}

\* One event over varied evidence.
EvidenceInputs ==
    {<<l, m, <<e>>>> :
        l \in SeqsUpTo(LogRows, MaxLogs),
        m \in {NoMetrics} \cup OneColumnTables \cup TwoColumnTables,
        e \in EventRows}

\* One event over a burst of one repeated log row.
BurstInputs ==
    {<<[i \in 1..k |-> r], m, <<e>>>> :
        k \in 0..MaxBurst, r \in LogRows,
        m \in {NoMetrics, MetricsTable(<<"cpu_usage">>,
                                        [c \in {"cpu_usage"} |-> temporal_window + 1])},
        e \in EventRows}

CorrelationInputs == RankInputs \cup EvidenceInputs \cup BurstInputs

\* Topologies of the correlation runs.
CorrelationServiceLists == {Diamond}

----------------------------------------------------------------------------
(* Correlation runs *)

\* Mutant of correlate_events: root_causes is kept on the engine and each call
\* adds its hypotheses to those of the calls before.
correlate_events_kept ==
    /\ pc = "idle"
    /\ IF \/ TimestampKeyError(timestamp_column)
          \/ ToDatetimeRaises(logs, metrics, events)
          \/ CorrelateRaises(logs, metrics, events)
       THEN /\ raised' = TRUE
            /\ root_causes' = <<>>
            /\ called' = FALSE
       ELSE /\ raised' = FALSE
            /\ root_causes' = SortRanked(root_causes \o
                                  Correlate(dependency_graph, FindCriticalEvents(events),
                                            DetectMetricAnomalies(metrics),
                                            ExtractLogErrors(logs)))
            /\ called' = TRUE
    /\ UNCHANGED <<dependency_graph, services, builds, chain, logs, metrics, events,
                   pc, todo, before, seen, walk, work, disk, timestamp_column, inference>>

\* RCAEngine.correlate_events(logs, metrics, events)
correlate_events ==
    /\ pc = "idle"
    /\ IF \/ TimestampKeyError(timestamp_column)
          \/ ToDatetimeRaises(logs, metrics, events)
          \/ CorrelateRaises(logs, metrics, events)
       THEN /\ raised' = TRUE
            /\ root_causes' = <<>>
            /\ called' = FALSE
       ELSE /\ raised' = FALSE
            /\ root_causes' = CorrelateEvents(dependency_graph, logs, metrics, events)
            /\ called' = TRUE
    /\ UNCHANGED <<dependency_graph, services, builds, chain, logs, metrics, events,
                   pc, todo, before, seen, walk, work, disk, timestamp_column, inference>>

Init ==
    /\ InitEngine
    /\ InitRest
    /\ \E input \in CorrelationInputs :
           /\ logs = input[1]
           /\ metrics = input[2]
           /\ events = input[3]

Next ==
    \/ \E svcs \in CorrelationServiceLists : build_dependency_graph(svcs)
    \/ correlate_events

\* Correlation of the tables a caller supplies, between topology updates.
Spec == Init /\ [][Next]_vars

\* One event over a few log rows, for runs that mix the engine's operations.
EngineInputs ==
    {<<l, NoMetrics, <<e>>>> : l \in SeqsUpTo(LogRows, MaxLogs), e \in EventRows}

InitEngineRuns ==
    /\ InitEngine
    /\ InitRest
    /\ \E input \in EngineInputs :
           /\ logs = input[1]
           /\ metrics = input[2]
           /\ events = input[3]

NextEngine ==
    \/ \E svcs \in CorrelationServiceLists : build_dependency_graph(svcs)
    \/ correlate_events
    \/ \E service \in {"D", "ghost"} : get_root_cause_chain(service)

\* Topology updates, correlation and chain queries on one engine.
SpecEngine == InitEngineRuns /\ [][NextEngine]_vars

----------------------------------------------------------------------------
(* Tables with flaws: records without a timestamp, tables without the      *)
(* timestamp column, timestamps that are no time, metric columns that are  *)
(* flat or hold text.                                                       *)

\* A metrics table of MetricRows rows, one a minute from minute 0.  The
\* column cpu_usage has its spike at minute temporal_window; a column of
\* kind "flat" is 50 throughout, one of kind "text" holds no number.  The
\* rows in odd_rows have odd_time for timestamp.
FlawedTable(cols, kind, odd_rows, odd_time) ==
    [columns |-> cols,
     rows |-> [i \in 1..MetricRows |->
                 [timestamp |-> IF i \in odd_rows THEN odd_time ELSE i - 1,
                  vals |-> [c \in Range(cols) |->
                              CASE kind[c] = "spike" ->
                                       IF i = temporal_window + 1 THEN <<95>> ELSE <<50>>
                                [] kind[c] = "flat" -> <<50>>
                                [] kind[c] = "text" -> NaN]]]]

ColumnKinds ==
    [cpu_usage |-> "spike", disk_usage |-> "flat", host |-> "text"]

FlawedMetrics ==
    {NoMetrics}
    \cup {FlawedTable(cols, ColumnKinds, {}, NaT) :
             cols \in {<<"cpu_usage">>, <<"disk_usage">>, <<"host">>,
                       <<"disk_usage", "cpu_usage">>, <<"host", "cpu_usage">>}}
    \cup {FlawedTable(<<"cpu_usage">>, ColumnKinds, {r}, t) :
             r \in {1, temporal_window + 1}, t \in {NaT, Unparsable}}
    \cup {FlawedTable(<<"cpu_usage">>, ColumnKinds, 1..MetricRows, NaT)}

FlawedLogs ==
    {<<>>,
     <<LogRow(temporal_window, "B", {"timeout"})>>,
     <<LogRow(temporal_window, "B", {})>>,
     <<LogRow(NaT, "B", {"timeout"})>>,
     <<LogRow(NaT, "A", {"timeout"}), LogRow(temporal_window, "B", {"timeout"})>>,
     <<LogRow(Unparsable, "B", {"timeout"})>>}

FlawedEvents ==
    {<<>>,
     <<EventRow(0, "Warning", "Unhealthy", <<"pod", "D">>)>>,
     <<EventRow(0, "Normal", "Started", <<"pod", "D">>)>>,
     <<EventRow(2 * temporal_window + 1, "Warning", "Unhealthy", <<"pod", "D">>)>>,
     <<EventRow(NaT, "Normal", "PodEvicted", <<"pod", "D">>)>>,
     <<EventRow(NaT, "Warning", "Unhealthy", <<"pod", "D">>),
       EventRow(0, "Normal", "PodEvicted", <<"pod", "D">>)>>,
     <<EventRow(Unparsable, "Warning", "Unhealthy", <<"pod", "D">>)>>}

\* A table without the timestamp column: no row of it has a timestamp.
Untimed(rows) == \A r \in Range(rows) : r.timestamp = NaT

\* pd.DataFrame(records) has a timestamp column when a record has the field;
\* pd.DataFrame() and pd.DataFrame([]) have no column at all.
TimestampColumns == [logs : BOOLEAN, metrics : BOOLEAN, events : BOOLEAN]

TableInputs ==
    {<<l, mt, e, cols>> \in FlawedLogs \X FlawedMetrics \X FlawedEvents \X TimestampColumns :
        /\ ~cols.logs => Untimed(l)
        /\ ~cols.metrics => Untimed(mt.rows)
        /\ ~cols.events => Untimed(e)}

InitTables ==
    /\ InitEngine
    /\ InitIdle
    /\ \E input \in TableInputs :
           /\ logs = input[1]
           /\ metrics = input[2]
           /\ events = input[3]
           /\ timestamp_column = input[4]

NextTables ==
    \/ \E svcs \in CorrelationServiceLists : build_dependency_graph(svcs)
    \/ correlate_events

\* Correlation of tables with flaws.
SpecTables == InitTables /\ [][NextTables]_vars

----------------------------------------------------------------------------
(* A topology update that runs beside readers on other threads: the loop  *)
(* of build_dependency_graph takes one insertion at a time, and no lock   *)
(* keeps a reader from running between two insertions.                     *)

RaceServiceLists == {Diamond, DbApi, Chain3}

\* The call enters the loop.
build_begin(svcs) ==
    /\ pc = "idle"
    /\ builds < MaxBuilds
    /\ pc' = "building"
    /\ todo' = BuildSteps(svcs)
    /\ before' = dependency_graph
    /\ services' = svcs
    /\ builds' = builds + 1
    /\ UNCHANGED <<dependency_graph, chain, logs, metrics, events, root_causes,
                   called, seen, raised, walk, work, disk, timestamp_column, inference>>

\* One add_node or add_edge on self.dependency_graph.
build_insert ==
    /\ pc = "building"
    /\ todo # <<>>
    /\ dependency_graph' = ApplyStep(dependency_graph, Head(todo))
    /\ todo' = Tail(todo)
    /\ UNCHANGED <<services, builds, chain, logs, metrics, events, root_causes,
                   called, pc, before, seen, raised, walk, work, disk, timestamp_column, inference>>

\* The loop is over and the call returns.
build_return ==
    /\ pc = "building"
    /\ todo = <<>>
    /\ pc' = "idle"
    /\ before' = EmptyGraph
    /\ UNCHANGED <<dependency_graph, services, builds, chain, logs, metrics, events,
                   root_causes, called, todo, seen, raised, walk, work, disk,
                   timestamp_column, inference>>

\* What a reader reads now, beside the topology before the running update
\* and the one the update leaves when it has returned.
Observation ==
    [graph |-> dependency_graph,
     old |-> IF pc = "building" THEN before ELSE dependency_graph,
     new |-> ApplySteps(dependency_graph, todo)]

\* get_root_cause_chain(service) on a reader thread.
concurrent_root_cause_chain(service) ==
    /\ \E result \in GetRootCauseChain(dependency_graph, service) :
           chain' = [service |-> service, result |-> result]
    /\ seen' = Observation
    /\ UNCHANGED <<dependency_graph, services, builds, logs, metrics, events,
                   root_causes, called, pc, todo, before, raised, walk, work, disk,
                   timestamp_column, inference>>

\* correlate_events(logs, metrics, events) on a reader thread:
\* _build_root_cause reads the predecessors from self.dependency_graph.
concurrent_correlate_events ==
    /\ IF \/ TimestampKeyError(timestamp_column)
          \/ ToDatetimeRaises(logs, metrics, events)
          \/ CorrelateRaises(logs, metrics, events)
       THEN /\ raised' = TRUE
            /\ root_causes' = <<>>
            /\ called' = FALSE
       ELSE /\ raised' = FALSE
            /\ root_causes' = CorrelateEvents(dependency_graph, logs, metrics, events)
            /\ called' = TRUE
    /\ seen' = Observation
    /\ UNCHANGED <<dependency_graph, services, builds, chain, logs, metrics, events,
                   pc, todo, before, walk, work, disk, timestamp_column, inference>>

InitRace ==
    /\ InitEngine \/ InitInference
    /\ InitRest
    /\ logs = <<LogRow(temporal_window, "B", {"timeout"})>>
    /\ metrics = NoMetrics
    /\ events = <<EventRow(0, "Warning", "Unhealthy", <<"pod", "D">>)>>

NextRace ==
    \/ \E svcs \in RaceServiceLists : build_begin(svcs)
    \/ build_insert
    \/ build_return
    \/ \E service \in {"D", "api", "C"} : concurrent_root_cause_chain(service)
    \/ concurrent_correlate_events

\* A topology update interleaved with reader threads.
SpecRace == InitRace /\ [][NextRace]_vars

----------------------------------------------------------------------------
(* Persistence: save_graph writes the graph with nx.write_gml, load_graph  *)
(* replaces it by what nx.read_gml reads.  A GML file lists the nodes,     *)
(* each with a numeric id and its name as label, and the edges by the ids  *)
(* of their ends; the reader names the nodes by their labels again.        *)

\* Alphabetical position of a service name (upper case before lower case, as
\* Python compares strings).
NameOrder(n) ==
    CASE n = "A" -> 1
      [] n = "B" -> 2
      [] n = "C" -> 3
      [] n = "D" -> 4
      [] n = "api" -> 5
      [] n = "database" -> 6
      [] n = "db" -> 7
      [] n = "emr-api" -> 8
      [] n = "ghost" -> 9
      [] n = "payment-service" -> 10
      [] n = "redis" -> 11

\* The id write_gml gives a node: the nodes are numbered from 0, each its
\* own number.
NodeId(g, n) == Cardinality({x \in g.nodes : NameOrder(x) < NameOrder(n)})

\* nx.write_gml(dependency_graph, path)
WriteGml(g) ==
    [directed |-> 1,
     node |-> {[id |-> NodeId(g, n), label |-> n] : n \in g.nodes},
     edge |-> {[source |-> NodeId(g, e[1]), target |-> NodeId(g, e[2])] : e \in g.edges}]

\* Mutant of ReadGml: the ends of every edge are taken the other way round.
ReadGmlTargetFirst(gml) ==
    LET label(i) == (CHOOSE n \in gml.node : n.id = i).label
    IN  [nodes |-> {n.label : n \in gml.node},
         edges |-> {<<label(e.target), label(e.source)>> : e \in gml.edge}]

\* nx.read_gml(path): the nodes by label, the edges source -> target.
ReadGml(gml) ==
    LET label(i) == (CHOOSE n \in gml.node : n.id = i).label
    IN  [nodes |-> {n.label : n \in gml.node},
         edges |-> {<<label(e.source), label(e.target)>> : e \in gml.edge}]

\* RCAEngine.save_graph(path)
save_graph ==
    /\ pc = "idle"
    /\ disk' = [gml |-> WriteGml(dependency_graph), saved |-> dependency_graph]
    /\ UNCHANGED <<dependency_graph, services, builds, chain, logs, metrics, events,
                   root_causes, called, pc, todo, before, seen, raised, walk, work,
                   timestamp_column, inference>>

\* RCAEngine.load_graph(path), the file being there.
load_graph ==
    /\ pc = "idle"
    /\ disk.gml # NoFile
    /\ dependency_graph' = ReadGml(disk.gml)
    /\ chain' = NoChain
    /\ root_causes' = <<>>
    /\ called' = FALSE
    /\ raised' = FALSE
    /\ UNCHANGED <<services, builds, logs, metrics, events, pc, todo, before, seen,
                   walk, work, disk, timestamp_column, inference>>

PersistServiceLists == {Diamond, DbApi, Cycle, DefaultServices}

NextPersist ==
    \/ \E svcs \in PersistServiceLists : build_dependency_graph(svcs)
    \/ save_graph
    \/ load_graph
    \/ \E service \in {"D", "A", "api", "payment-service"} : get_root_cause_chain(service)

\* Topology updates, saves, loads and chain queries.
SpecPersist == InitGraph /\ [][NextPersist]_vars

----------------------------------------------------------------------------
(* A chain query taken one step at a time: nx.ancestors walks the graph    *)
(* backwards from the service, breadth first, with a set of the nodes it   *)
(* has met; the call then sorts what it found by depth and returns.         *)

SelfLoop == <<Svc("A", <<"A">>)>>

WalkServiceLists == {Diamond, Cycle, Chain3, SelfLoop}

\* Mutant of Unvisited: the set of met nodes is not consulted.
UnvisitedAll(g, n, visited) == Predecessors(g, n)

\* The predecessors of n that the traversal has not met yet.
Unvisited(g, n, visited) == Predecessors(g, n) \ visited

\* The call starts: an unknown service returns [] at once, a known one is
\* the first node of the traversal.
chain_begin(service) ==
    /\ pc = "idle"
    /\ walk.state = "idle"
    /\ IF service \notin dependency_graph.nodes
       THEN /\ chain' = [service |-> service, result |-> <<>>]
            /\ walk' = walk
       ELSE /\ chain' = NoChain
            /\ walk' = [state |-> "ancestors", service |-> service,
                        visited |-> {service}, queue |-> <<service>>,
                        expanded |-> <<>>]
    /\ UNCHANGED <<dependency_graph, services, builds, logs, metrics, events,
                   root_causes, called, pc, todo, before, seen, raised, work, disk,
                   timestamp_column, inference>>

\* One node leaves the queue and its predecessors not met before enter it.
chain_visit ==
    /\ walk.state = "ancestors"
    /\ walk.queue # <<>>
    /\ LET n == Head(walk.queue)
           new == Unvisited(dependency_graph, n, walk.visited)
       IN  \E order \in Perms(new) :
               walk' = [walk EXCEPT !.visited = @ \cup new,
                                    !.queue = Tail(@) \o order,
                                    !.expanded = Append(@, n)]
    /\ UNCHANGED <<dependency_graph, services, builds, chain, logs, metrics, events,
                   root_causes, called, pc, todo, before, seen, raised, work, disk,
                   timestamp_column, inference>>

\* The queue is empty: the nodes met, less the service, are listed, sorted
\* by depth and returned.
chain_return ==
    /\ walk.state = "ancestors"
    /\ walk.queue = <<>>
    /\ \E listed \in Perms(walk.visited \ {walk.service}) :
           chain' = [service |-> walk.service,
                     result |-> SortByDepth(dependency_graph, walk.service, listed)]
    /\ walk' = NoWalk
    /\ UNCHANGED <<dependency_graph, services, builds, logs, metrics, events,
                   root_causes, called, pc, todo, before, seen, raised, work, disk,
                   timestamp_column, inference>>

InitWalk ==
    /\ InitEngine
    /\ InitRest
    /\ logs = NoTable
    /\ metrics = NoMetrics
    /\ events = NoTable

NextWalk ==
    \/ \E svcs \in WalkServiceLists :
           walk.state = "idle" /\ build_dependency_graph(svcs)
    \/ \E service \in QueryNames : chain_begin(service)
    \/ chain_visit
    \/ chain_return

\* Chain queries on one thread: a call that has started keeps taking steps
\* until it returns.
SpecWalk ==
    InitWalk /\ [][NextWalk]_vars /\ WF_vars(chain_visit) /\ WF_vars(chain_return)

----------------------------------------------------------------------------
(* The loop of correlate_events with one worker per critical event: the     *)
(* source runs the iterations in the order of the events table; here each  *)
(* iteration is a step, the steps are taken in any order, and each appends *)
(* to root_causes when it is done.  The sort follows the last of them.      *)

\* The tables are converted and the records extracted; the loop is entered.
correlate_begin ==
    /\ pc = "idle"
    /\ work.state = "idle"
    /\ IF TimestampKeyError(timestamp_column) \/ ToDatetimeRaises(logs, metrics, events)
       THEN /\ raised' = TRUE
            /\ work' = work
       ELSE /\ raised' = FALSE
            /\ work' = [state |-> "running",
                        pending |-> 1..Len(FindCriticalEvents(events)),
                        root_causes |-> <<>>]
    /\ root_causes' = <<>>
    /\ called' = FALSE
    /\ UNCHANGED <<dependency_graph, services, builds, chain, logs, metrics, events,
                   pc, todo, before, seen, walk, disk, timestamp_column, inference>>

\* The iteration for the i-th critical event.
correlate_one(i) ==
    /\ work.state = "running"
    /\ i \in work.pending
    /\ work' = [work EXCEPT
                   !.pending = @ \ {i},
                   !.root_causes = @ \o CorrelateOne(dependency_graph,
                                                     FindCriticalEvents(events)[i],
                                                     DetectMetricAnomalies(metrics),
                                                     ExtractLogErrors(logs))]
    /\ UNCHANGED <<dependency_graph, services, builds, chain, logs, metrics, events,
                   root_causes, called, pc, todo, before, seen, raised, walk, disk,
                   timestamp_column, inference>>

\* Every iteration is done: the list is sorted and returned.
correlate_return ==
    /\ work.state = "running"
    /\ work.pending = {}
    /\ root_causes' = SortRanked(work.root_causes)
    /\ called' = TRUE
    /\ work' = NoWork
    /\ UNCHANGED <<dependency_graph, services, builds, chain, logs, metrics, events,
                   pc, todo, before, seen, raised, walk, disk, timestamp_column, inference>>

InitWorkers ==
    /\ InitEngine
    /\ InitRest
    /\ \E input \in RankInputs :
           /\ logs = input[1]
           /\ metrics = input[2]
           /\ events = input[3]

NextWorkers ==
    \/ \E svcs \in CorrelationServiceLists :
           work.state = "idle" /\ build_dependency_graph(svcs)
    \/ correlate_begin
    \/ \E i \in 1..MaxEvents : correlate_one(i)
    \/ correlate_return

\* Correlation with the per-event steps in any order.
SpecWorkers == InitWorkers /\ [][NextWorkers]_vars

----------------------------------------------------------------------------
(* Records of every kind: event types, reason codes and object references, *)
(* log messages in either case, metric columns of several lengths with     *)
(* missing samples.                                                         *)

LongRows == 27

\* The critical reason codes, and three that are not.
Reasons == critical_types \cup {"Unhealthy", "Started", "CrashLoopBackOff"}

\* "" and "D" hold no '/', "pod/" ends with it, and NaN is the missing cell.
Objects ==
    {NaN, <<"">>, <<"D">>, <<"pod", "D">>, <<"pod", "">>, <<"ns", "pod", "payment-x">>}

\* One event of any kind at minute 0, over a log error and a metric spike at
\* the end of its window, either, or none.
KindInputs ==
    {<<l, m, <<EventRow(0, ty, r, obj)>>>> :
        l \in {<<>>, <<LogRow(temporal_window, "B", {"timeout"})>>},
        m \in {NoMetrics,
               MetricsTable(<<"cpu_usage">>, [c \in {"cpu_usage"} |-> temporal_window + 1])},
        ty \in {"Warning", "Normal"}, r \in Reasons, obj \in Objects}

OrderRows ==
    {EventRow(0, "Warning", "Unhealthy", <<"pod", "D">>),
     EventRow(0, "Normal", "NodeNotReady", <<"node", "n1">>),
     EventRow(0, "Normal", "Started", <<"pod", "D">>),
     EventRow(1, "Warning", "FailedScheduling", <<"pod", "D">>)}

MaxOrder == 3

\* Several events, some of them alike, over one log error.
OrderInputs ==
    {<<<<LogRow(temporal_window, "B", {"timeout"})>>, NoMetrics, e>> :
        e \in SeqsUpTo(OrderRows, MaxOrder)}

\* A crash-looping pod the topology does not know, and one metric spike
\* inside or outside of the event's window.
ScenarioInputs ==
    {<<<<>>, m, <<EventRow(t, "Warning", "PodCrashLoopBackOff", <<"pod", "payment-x">>)>>>> :
        m \in OneColumnTables, t \in EventTimes}

Phrases ==
    error_keywords \cup critical_keywords \cup high_keywords
        \cup {"FATAL", "Timeout", "Connection Refused", "Out Of Memory", "started"}

MaxPhrases == 2

Messages == {msg \in SUBSET Phrases : Cardinality(msg) <= MaxPhrases}

\* One log row of any message, or two rows of a few messages, in the window
\* of one event.
MessageInputs ==
    {<<<<LogRow(temporal_window, "B", msg)>>, NoMetrics,
       <<EventRow(0, "Warning", "Unhealthy", <<"pod", "D">>)>>>> : msg \in Messages}
    \cup {<<<<LogRow(temporal_window, "B", m1), LogRow(temporal_window - 1, "A", m2)>>,
            NoMetrics, <<EventRow(0, "Warning", "Unhealthy", <<"pod", "D">>)>>>> :
            m1, m2 \in {{"error", "timeout"}, {"out of memory"}, {"crash", "fatal"}, {}}}

\* n rows, one a minute from minute 0.  The sample of column c is missing in
\* the rows of missing[c], 95 in those of spikes[c] and 50 in the others.
SampleTable(cols, n, spikes, missing) ==
    [columns |-> cols,
     rows |-> [i \in 1..n |->
                 [timestamp |-> i - 1,
                  vals |-> [c \in Range(cols) |->
                              IF i \in missing[c] THEN NaN
                              ELSE IF i \in spikes[c] THEN <<95>> ELSE <<50>>]]]]

\* Lengths on both sides of the fewest samples that put one spike above
\* three, and above five, deviations.
SampleLengths ==
    {MetricRows - 1, MetricRows, MetricRows + 1, LongRows - 1, LongRows, LongRows + 1}

SpikeTime == temporal_window + 1

\* cpu_usage with up to two spikes and missing samples before or behind them,
\* alone or beside a flat column or a column of text.
SampleTables ==
    {SampleTable(cols, n,
                 [cpu_usage |-> s, disk_usage |-> {}, host |-> {}],
                 [cpu_usage |-> ms, disk_usage |-> {}, host |-> 1..n]) :
        cols \in {<<"cpu_usage">>},
        n \in SampleLengths,
        s \in {{}, {SpikeTime + 1}, {SpikeTime + 1, SpikeTime + 3}},
        ms \in {{}, {1}, {1, 2}, {SpikeTime + 2}, 1..(LongRows + 1)}}
    \cup {SampleTable(cols, MetricRows + 1,
                      [cpu_usage |-> {SpikeTime + 1}, disk_usage |-> {}, host |-> {}],
                      [cpu_usage |-> ms, disk_usage |-> {}, host |-> 1..(MetricRows + 1)]) :
             cols \in {<<"host", "cpu_usage">>, <<"disk_usage", "cpu_usage">>},
             ms \in {{}, {1}}}

\* One event with the first spike inside its window: in the middle of it, or
\* at its start.
SampleInputs ==
    {<<<<>>, m, <<EventRow(t, "Warning", "Unhealthy", <<"pod", "D">>)>>>> :
        m \in SampleTables, t \in {SpikeTime, SpikeTime + temporal_window}}

RecordInputs ==
    KindInputs \cup OrderInputs \cup ScenarioInputs \cup MessageInputs \cup SampleInputs

InitRecords ==
    /\ InitEngine
    /\ InitRest
    /\ \E input \in RecordInputs :
           /\ logs = input[1]
           /\ metrics = input[2]
           /\ events = input[3]

NextRecords ==
    \/ \E svcs \in CorrelationServiceLists : build_dependency_graph(svcs)
    \/ correlate_events

\* Correlation of records of every kind.
SpecRecords == InitRecords /\ [][NextRecords]_vars

----------------------------------------------------------------------------
(* RCAInference.analyze_incident: the engine behind a call that converts   *)
(* the incident's lists to tables and falls back on the incident's own     *)
(* anomalies when the engine finds nothing or fails.                        *)

\* The severity of a supplied anomaly is a text (the operator's critical,
\* high, medium), a number in tenths (the anomaly detector's score), or is
\* not given.
TextSeverity(s) == [kind |-> "text", text |-> s, number |-> 0]
NumberSeverity(n) == [kind |-> "number", text |-> "", number |-> n]

Anomaly(metric, severity) == [metric |-> metric, severity |-> severity]

\* x.get('severity', 0.0)
SeverityKey(anomaly) ==
    IF anomaly.severity = NoSeverity THEN NumberSeverity(0) ELSE anomaly.severity

\* a > b on two keys of one kind: texts compare alphabetically.
SeverityKeyGreater(a, b) ==
    IF a.kind = "text" THEN StrOrder(a.text) > StrOrder(b.text)
    ELSE a.number > b.number

\* max() compares each key with the greatest before it, and comparing a text
\* with a number raises TypeError.
MaxRaises(anomalies) ==
    \E i, j \in 1..Len(anomalies) :
        SeverityKey(anomalies[i]).kind # SeverityKey(anomalies[j]).kind

\* Mutant of WorstAnomaly: the last of the greatest is taken.
WorstAnomalyLast(anomalies) ==
    anomalies[CHOOSE i \in 1..Len(anomalies) :
                 /\ \A j \in 1..Len(anomalies) :
                        ~SeverityKeyGreater(SeverityKey(anomalies[j]), SeverityKey(anomalies[i]))
                 /\ \A j \in (i + 1)..Len(anomalies) :
                        SeverityKeyGreater(SeverityKey(anomalies[i]), SeverityKey(anomalies[j]))]

\* max(anomalies, key=lambda x: x.get('severity', 0.0)): the first of the
\* anomalies with the greatest key.
WorstAnomaly(anomalies) ==
    anomalies[CHOOSE i \in 1..Len(anomalies) :
                 /\ \A j \in 1..Len(anomalies) :
                        ~SeverityKeyGreater(SeverityKey(anomalies[j]), SeverityKey(anomalies[i]))
                 /\ \A j \in 1..(i - 1) :
                        SeverityKeyGreater(SeverityKey(anomalies[i]), SeverityKey(anomalies[j]))]

\* The root cause the fallback names after the metric of the worst anomaly.
FallbackRootCause(metric) ==
    CASE metric = "cpu_usage" -> "CPU saturation"
      [] metric = "memory_usage" -> "Memory pressure"
      [] metric = "error_rate" -> "Error rate spike"
      [] metric = "latency" -> "latency anomaly"

\* What analyze_incident returned: the keys of the result the callers read.
Returned(incident, root_cause, confidence, severity, affected_service, related_anomalies, all_root_causes) ==
    [state |-> "returned", service |-> incident.service,
     anomalies |-> incident.anomalies, root_cause |-> root_cause,
     confidence |-> confidence, severity |-> severity,
     affected_service |-> affected_service,
     related_anomalies |-> related_anomalies, all_root_causes |-> all_root_causes]

\* The call left by an exception.
Raised(incident) ==
    [NoAnalysis EXCEPT !.state = "raised", !.service = incident.service,
                       !.anomalies = incident.anomalies]

\* _fallback_rca(incident_data)
FallbackRca(incident) ==
    IF incident.anomalies # <<>>
    THEN IF MaxRaises(incident.anomalies) THEN Raised(incident)
         ELSE LET worst_anomaly == WorstAnomaly(incident.anomalies)
              IN  Returned(incident, FallbackRootCause(worst_anomaly.metric), 6,
                           IF worst_anomaly.severity = NoSeverity
                           THEN TextSeverity("medium") ELSE worst_anomaly.severity,
                           incident.service, <<worst_anomaly>>, <<>>)
    ELSE Returned(incident, "unknown", 3, TextSeverity("low"), incident.service,
                  <<>>, <<>>)

\* Mutant of BestRootCause: the first hypothesis of the ranked list is taken.
BestRootCauseFirst(found) == found[1]

\* max(root_causes, key=lambda x: x.get('confidence', 0.0)): the first of the
\* hypotheses with the greatest confidence.
BestRootCause(found) ==
    found[CHOOSE i \in 1..Len(found) :
             /\ \A j \in 1..Len(found) : found[j].confidence <= found[i].confidence
             /\ \A j \in 1..(i - 1) : found[j].confidence < found[i].confidence]

\* The result made of the best hypothesis.
BestResult(incident, found) ==
    LET best_rc == BestRootCause(found)
    IN  Returned(incident, best_rc.root_cause, best_rc.confidence,
                 TextSeverity(best_rc.severity), best_rc.affected_service,
                 best_rc.related_anomalies, found)

\* pd.DataFrame(records) has a timestamp column when a record has the field;
\* the table made of an empty list is given the column.
HasTimestampColumn(records) == records = <<>> \/ ~Untimed(records)

\* _logs_to_dataframe, _events_to_dataframe: pd.to_datetime on the timestamp
\* column, when there is one, raises on a text that is no time.
ConversionRaises(records) ==
    HasTimestampColumn(records) /\ \E r \in Range(records) : r.timestamp = Unparsable

\* _metrics_to_dataframe: no row for no metrics, else one row stamped now with
\* a column for each metric, 0.0 standing for a value that is no number.
MetricsToDataframe(metric_values, now) ==
    IF metric_values = <<>> THEN NoMetrics
    ELSE [columns |-> [k \in 1..Len(metric_values) |-> metric_values[k].name],
          rows |-> <<[timestamp |-> now,
                      vals |-> [c \in {metric_values[k].name : k \in 1..Len(metric_values)} |->
                                  LET k == CHOOSE k \in 1..Len(metric_values) :
                                               metric_values[k].name = c
                                  IN  IF metric_values[k].value = NaN THEN <<0>>
                                      ELSE metric_values[k].value]]>>]

\* RCAInference.analyze_incident(incident_data)
analyze_incident(incident) ==
    /\ pc = "idle"
    /\ LET logs_df == incident.logs
           metrics_df == MetricsToDataframe(incident.metrics, incident.now)
           events_df == incident.events
           has_column == [logs |-> HasTimestampColumn(logs_df), metrics |-> TRUE,
                          events |-> HasTimestampColumn(events_df)]
           converted == ~ConversionRaises(incident.logs) /\ ~ConversionRaises(incident.events)
           engine_raises == \/ TimestampKeyError(has_column)
                            \/ ToDatetimeRaises(logs_df, metrics_df, events_df)
                            \/ CorrelateRaises(logs_df, metrics_df, events_df)
           found == IF converted /\ ~engine_raises
                    THEN CorrelateEvents(dependency_graph, logs_df, metrics_df, events_df)
                    ELSE <<>>
       IN  /\ IF converted
              THEN /\ logs' = logs_df
                   /\ metrics' = metrics_df
                   /\ events' = events_df
                   /\ timestamp_column' = has_column
                   /\ raised' = engine_raises
                   /\ called' = ~engine_raises
                   /\ root_causes' = found
              ELSE UNCHANGED <<logs, metrics, events, timestamp_column, raised, called,
                               root_causes>>
           /\ inference' = IF found # <<>> THEN BestResult(incident, found)
                           ELSE FallbackRca(incident)
    /\ UNCHANGED <<dependency_graph, services, builds, chain, pc, todo, before, seen,
                   walk, work, disk>>

\* The anomalies an incident is supplied with.
SuppliedAnomalies ==
    {Anomaly(mt, sev) :
        mt \in {"cpu_usage", "latency"},
        sev \in {NoSeverity, NumberSeverity(3), NumberSeverity(8),
                 TextSeverity("high"), TextSeverity("medium"), TextSeverity("critical")}}

AnomalyLists ==
    {<<>>} \cup {<<a>> : a \in SuppliedAnomalies}
        \cup {<<a, b>> \in SuppliedAnomalies \X SuppliedAnomalies :
                 a.metric = "cpu_usage" /\ b.metric = "latency"}

Incident(anomalies, log_records, metric_values, event_records) ==
    [service |-> "payment-service", anomalies |-> anomalies, logs |-> log_records,
     metrics |-> metric_values, events |-> event_records, now |-> 2 * temporal_window]

\* Incidents the engine finds nothing for: no event, no critical event, a
\* critical event without evidence, events without a timestamp, an event whose
\* timestamp is no time.
UnexplainedIncidents ==
    {Incident(a, l, <<[name |-> "cpu_usage", value |-> <<95>>]>>, e) :
        a \in AnomalyLists,
        l \in {<<>>},
        e \in {<<>>,
               <<EventRow(0, "Normal", "Started", <<"pod", "payment-service">>)>>,
               <<EventRow(0, "Warning", "Unhealthy", <<"pod", "payment-service">>)>>,
               <<EventRow(NaT, "Warning", "Unhealthy", <<"pod", "payment-service">>)>>,
               <<EventRow(Unparsable, "Warning", "Unhealthy", <<"pod", "payment-service">>)>>}}

IncidentEvents ==
    {EventRow(0, "Warning", "Unhealthy", <<"pod", "payment-service">>),
     EventRow(0, "Normal", "PodEvicted", <<"pod", "emr-api">>),
     EventRow(2 * temporal_window + 1, "Warning", "Unhealthy", <<"pod", "ghost">>),
     EventRow(2 * temporal_window + 1, "Normal", "PodEvicted", <<"pod", "ghost">>)}

\* Incidents with up to two events over log errors of their upstream services.
ExplainedIncidents ==
    {Incident(a, l, <<>>, e) :
        a \in {<<>>, <<Anomaly("cpu_usage", NumberSeverity(8))>>},
        l \in {<<>>,
               <<LogRow(temporal_window, "database", {"timeout"})>>,
               <<LogRow(temporal_window, "redis", {"timeout"})>>,
               <<LogRow(temporal_window, "database", {"timeout"}),
                 LogRow(temporal_window + 1, "redis", {"timeout"})>>},
        e \in {<<>>} \cup {<<x>> : x \in IncidentEvents}
                \cup {<<x, y>> : x, y \in IncidentEvents}}

Incidents == UnexplainedIncidents \cup ExplainedIncidents

InitAnalysis ==
    /\ InitInference
    /\ InitRest
    /\ logs = NoTable
    /\ metrics = NoMetrics
    /\ events = NoTable

NextAnalysis ==
    \/ \E incident \in Incidents :
           inference.state = "idle" /\ analyze_incident(incident)
    \/ \E svcs \in CorrelationServiceLists : build_dependency_graph(svcs)

\* One incident analysed, before, between or after topology updates.
SpecAnalysis == InitAnalysis /\ [][NextAnalysis]_vars

----------------------------------------------------------------------------
(* Reference notions the claims are stated with *)

\* The topology a services list describes: its services and their dependencies
\* as nodes, one edge dependency -> dependent per listed dependency.
Described(svcs) ==
    [nodes |-> {svcs[i].name : i \in 1..Len(svcs)} \cup
               UNION {Range(svcs[i].dependencies) : i \in 1..Len(svcs)},
     edges |-> UNION {{<<svcs[i].dependencies[k], svcs[i].name>> :
                          k \in 1..Len(svcs[i].dependencies)} : i \in 1..Len(svcs)}]

\* Nodes reachable from a in at most k steps along dependency -> dependent edges.
RECURSIVE ForwardReach(_, _, _)
ForwardReach(g, a, k) ==
    IF k = 0 THEN {a}
    ELSE LET prev == ForwardReach(g, a, k - 1)
         IN  prev \cup {e[2] : e \in {x \in g.edges : x[1] \in prev}}

\* The other services from which n is reachable: its transitive dependencies.
TransitiveDependencies(g, n) ==
    {a \in g.nodes \ {n} : n \in ForwardReach(g, a, Cardinality(g.nodes))}

NoDuplicates(s) == \A i, j \in 1..Len(s) : s[i] = s[j] => i = j

----------------------------------------------------------------------------
(* Claims *)

\* C1: build_dependency_graph replaces the whole topology: after any sequence
\* of build calls the graph's nodes and edges are exactly those the most
\* recent services list describes.
C1_BuildReplacesTopology ==
    builds > 0 => dependency_graph = Described(services)

\* C2: while a build_dependency_graph call is in progress, a concurrent
\* get_root_cause_chain or correlate_events call observes the complete old
\* topology or the complete new topology, never a part of the new one.
C2_ReaderSeesWholeTopology ==
    seen.graph = seen.old \/ seen.graph = seen.new

\* The hypotheses of the last correlate_events call.
Hypotheses == {root_causes[i] : i \in 1..Len(root_causes)}

EvidenceCount(h) == Len(h.related_anomalies) + Len(h.related_errors)

\* Positions of the related errors that come from one of the hypothesis's
\* upstream_services.
UpstreamErrorPositions(h) ==
    {i \in 1..Len(h.related_errors) : h.related_errors[i].service \in h.upstream_services}

\* The explicit ordinal of a severity.
SeverityRank(sev) ==
    CASE sev = "critical" -> 3
      [] sev = "high" -> 2
      [] sev = "medium" -> 1
      [] sev = "low" -> 0

\* C3: the list correlate_events returns is sorted descending by
\* (severity_rank, confidence): a critical hypothesis stands before a high
\* one, and among equal severities the higher confidence comes first.
C3_RankedBySeverityRank ==
    \A i, j \in 1..Len(root_causes) :
        i < j =>
            \/ SeverityRank(root_causes[i].severity) > SeverityRank(root_causes[j].severity)
            \/ /\ root_causes[i].severity = root_causes[j].severity
               /\ root_causes[i].confidence >= root_causes[j].confidence

\* C4: upstream_services of every hypothesis is the full set of transitive
\* ancestors of affected_service in the graph, and empty when
\* affected_service is no node of the graph.
C4_UpstreamIsAllAncestors ==
    \A h \in Hypotheses :
        h.upstream_services =
            IF h.affected_service \in dependency_graph.nodes
            THEN TransitiveDependencies(dependency_graph, h.affected_service)
            ELSE {}

\* C5: for every critical event at time t with evidence, the hypothesis's
\* related anomalies and related errors are exactly the extracted records
\* with t - 5 <= ts <= t + 5, both ends included; no hypothesis holds
\* anything else.
C5_WindowInclusive ==
    LET inside(t, r) == t - r.timestamp <= temporal_window
                        /\ r.timestamp - t <= temporal_window
        anomaliesAt(t) == SelectSeq(DetectMetricAnomalies(metrics),
                                    LAMBDA r : inside(t, r))
        errorsAt(t) == SelectSeq(ExtractLogErrors(logs), LAMBDA r : inside(t, r))
    IN  /\ \A h \in Hypotheses :
              /\ h.related_anomalies = anomaliesAt(h.event.timestamp)
              /\ h.related_errors = errorsAt(h.event.timestamp)
        /\ called =>
              \A i \in 1..Len(events) :
                  /\ events[i].type = "Warning" \/ events[i].reason \in critical_types
                  /\ anomaliesAt(events[i].timestamp) # <<>>
                        \/ errorsAt(events[i].timestamp) # <<>>
                  => \E h \in Hypotheses :
                         /\ h.event.timestamp = events[i].timestamp
                         /\ h.event.object = events[i].object
                         /\ h.event.reason = events[i].reason
                         /\ h.related_anomalies = anomaliesAt(events[i].timestamp)
                         /\ h.related_errors = errorsAt(events[i].timestamp)

\* C5 witness: one hypothesis holds an error stamped t + 5 while an error
\* stamped t + 6 was extracted and left out, another holds an error stamped
\* t - 5 while an error stamped t - 6 was left out.
C5_Witness ==
    /\ \E h \in Hypotheses :
          /\ \E e \in Range(h.related_errors) :
                 e.timestamp = h.event.timestamp + temporal_window
          /\ \E e \in Range(ExtractLogErrors(logs)) :
                 e.timestamp = h.event.timestamp + temporal_window + 1
    /\ \E h \in Hypotheses :
          /\ \E e \in Range(h.related_errors) :
                 e.timestamp = h.event.timestamp - temporal_window
          /\ \E e \in Range(ExtractLogErrors(logs)) :
                 e.timestamp = h.event.timestamp - temporal_window - 1

\* Event rows that qualify as critical and have a record within five minutes.
CriticalRowsWithEvidence ==
    {i \in 1..Len(events) :
        /\ events[i].type = "Warning" \/ events[i].reason \in critical_types
        /\ \E r \in Range(DetectMetricAnomalies(metrics)) \cup Range(ExtractLogErrors(logs)) :
               /\ events[i].timestamp - r.timestamp <= temporal_window
               /\ r.timestamp - events[i].timestamp <= temporal_window}

\* C6: every hypothesis has at least one related anomaly or related error,
\* and there are as many hypotheses as critical events with evidence.
C6_NoEvidenceNoHypothesis ==
    called =>
        /\ \A h \in Hypotheses : EvidenceCount(h) >= 1
        /\ Len(root_causes) = Cardinality(CriticalRowsWithEvidence)

\* C6 witness: two critical events, one of them without evidence, one
\* hypothesis.
C6_Witness ==
    /\ called
    /\ Len(events) = 2
    /\ \A i \in 1..2 : events[i].type = "Warning" \/ events[i].reason \in critical_types
    /\ Len(root_causes) = 1

\* C7: every hypothesis has a confidence in [0, 1] and a severity among
\* critical, high and medium.
C7_ConfidenceAndSeverityRange ==
    \A h \in Hypotheses :
        /\ 0 <= h.confidence /\ h.confidence <= 10
        /\ h.severity \in {"critical", "high", "medium"}

\* C7 witness: six or more records and an upstream error (0.9 + 0.2 before
\* the clamp) give confidence 1.0.
C7_Witness ==
    \E h \in Hypotheses :
        /\ EvidenceCount(h) >= 6
        /\ UpstreamErrorPositions(h) # {}
        /\ h.confidence = 10

\* C8: with n related records the confidence is min(0.9, 0.3 + 0.1 n) when no
\* related error comes from an upstream service and
\* min(1.0, min(0.9, 0.3 + 0.1 n) + 0.2) when one does; it does not decrease
\* with n and stays at or below 0.9 without an upstream error.
C8_ConfidenceFormula ==
    /\ \A h \in Hypotheses :
          LET n == EvidenceCount(h)
              base == IF 3 + n <= 9 THEN 3 + n ELSE 9
          IN  IF UpstreamErrorPositions(h) = {}
              THEN h.confidence = base /\ h.confidence <= 9
              ELSE h.confidence = (IF base + 2 <= 10 THEN base + 2 ELSE 10)
    /\ \A h1, h2 \in Hypotheses :
          /\ (UpstreamErrorPositions(h1) = {}) = (UpstreamErrorPositions(h2) = {})
          /\ EvidenceCount(h1) <= EvidenceCount(h2)
          => h1.confidence <= h2.confidence

\* C8 witness: seven or more records, none from an upstream service, and the
\* confidence stands at the cap 0.9.
C8_Witness ==
    \E h \in Hypotheses :
        /\ EvidenceCount(h) >= 7
        /\ h.related_errors # <<>>
        /\ UpstreamErrorPositions(h) = {}
        /\ h.confidence = 9

\* C9: root_cause is affected_service unless upstream_services is non-empty
\* and a related error's service is in it; then it is the service of the
\* first such error, a member of upstream_services.
C9_RootCauseService ==
    \A h \in Hypotheses :
        LET ups == UpstreamErrorPositions(h)
        IN  IF ups = {}
            THEN h.root_cause = h.affected_service
            ELSE /\ \E i \in ups :
                       /\ \A j \in ups : i <= j
                       /\ h.root_cause = h.related_errors[i].service
                 /\ h.root_cause \in h.upstream_services

\* C9 witness: the first related error is not from an upstream service, a
\* later one is, and root_cause is the later one's service.
C9_Witness ==
    \E h \in Hypotheses :
        /\ Len(h.related_errors) >= 2
        /\ h.related_errors[1].service \notin h.upstream_services
        /\ h.root_cause = h.related_errors[2].service
        /\ h.root_cause # h.affected_service

\* C10: get_root_cause_chain(service) returns exactly the other services from
\* which service is reachable along dependency -> dependent edges, each once;
\* a node with no incoming edge yields the empty list, D of the diamond yields
\* {A, B, C}, and api of the db/api topology yields [db].
C10_ChainIsTransitiveDependencies ==
    chain # NoChain =>
        /\ Range(chain.result) = TransitiveDependencies(dependency_graph, chain.service)
        /\ NoDuplicates(chain.result)
        /\ (\A e \in dependency_graph.edges : e[2] # chain.service) => chain.result = <<>>
        /\ (dependency_graph = Described(Diamond) /\ chain.service = "D")
               => Range(chain.result) = {"A", "B", "C"}
        /\ (dependency_graph = Described(DbApi) /\ chain.service = "api")
               => chain.result = <<"db">>

\* C10 witness: the chain of D was asked on exactly the diamond and holds the
\* indirect dependency A besides B and C.
C10_Witness ==
    /\ dependency_graph = Described(Diamond)
    /\ chain.service = "D"
    /\ Len(chain.result) = 3
    /\ "A" \in Range(chain.result)

\* C11: the list returned by get_root_cause_chain(service) is in ascending
\* order of the length of the shortest path from the ancestor to service, and
\* ancestors at the same distance stand in alphabetical order.
C11_ChainByDepthThenName ==
    chain # NoChain =>
        \A i, j \in 1..Len(chain.result) :
            i < j =>
                LET di == ShortestPathLength(dependency_graph, chain.result[i], chain.service)
                    dj == ShortestPathLength(dependency_graph, chain.result[j], chain.service)
                IN  \/ di < dj
                    \/ di = dj /\ NameOrder(chain.result[i]) < NameOrder(chain.result[j])

\* C12: on every graph, cyclic ones included, a get_root_cause_chain call
\* that has started returns, and its traversal takes no node twice.
C12_ChainTerminates ==
    /\ [](NoDuplicates(walk.expanded))
    /\ (walk.state = "ancestors") ~> (walk.state = "idle" /\ chain # NoChain)

\* C12 witness: on a graph where A and B depend on each other the chain of A
\* was taken step by step and has returned with B in it.
C12_Witness ==
    /\ <<"A", "B">> \in dependency_graph.edges
    /\ <<"B", "A">> \in dependency_graph.edges
    /\ walk.state = "idle"
    /\ chain.service = "A"
    /\ "B" \in Range(chain.result)

\* C13: a service the graph does not hold is no error: its chain is the
\* empty list, and a critical event with evidence whose affected service the
\* graph does not hold still yields a hypothesis, with no upstream services
\* and the affected service as root cause.
C13_UnknownServiceDegrades ==
    LET affected(row) == IF Len(row.object) >= 2 THEN row.object[Len(row.object)]
                         ELSE "unknown"
    IN  /\ (chain # NoChain /\ chain.service \notin dependency_graph.nodes)
               => chain.result = <<>>
        /\ \A h \in Hypotheses :
               h.affected_service \notin dependency_graph.nodes
                   => h.upstream_services = {} /\ h.root_cause = h.affected_service
        /\ called =>
               \A i \in CriticalRowsWithEvidence :
                   affected(events[i]) \notin dependency_graph.nodes
                       => \E h \in Hypotheses :
                              /\ h.event.object = events[i].object
                              /\ h.event.timestamp = events[i].timestamp
                              /\ h.affected_service = affected(events[i])
                              /\ h.upstream_services = {}
                              /\ h.root_cause = affected(events[i])

\* C13 witness: on a built graph the chain of a service it does not hold came
\* back empty, and a hypothesis stands for an affected service it does not
\* hold although one of its related errors comes from a service it holds.
C13_Witness ==
    /\ dependency_graph.nodes # {}
    /\ chain.service = "ghost"
    /\ chain.result = <<>>
    /\ \E h \in Hypotheses :
           /\ h.affected_service \notin dependency_graph.nodes
           /\ \E e \in Range(h.related_errors) : e.service \in dependency_graph.nodes
           /\ h.root_cause = h.affected_service

\* The hypotheses in the order the loop over the critical events found them,
\* before the sort.
Discovered ==
    Correlate(dependency_graph, FindCriticalEvents(events),
              DetectMetricAnomalies(metrics), ExtractLogErrors(logs))

\* C14: hypotheses that tie on severity and confidence stand in the returned
\* list in the order in which they were discovered.
C14_TiesKeepDiscoveryOrder ==
    called =>
        \A h \in Range(Discovered) :
            LET ties(x) == x.severity = h.severity /\ x.confidence = h.confidence
            IN  SelectSeq(root_causes, ties) = SelectSeq(Discovered, ties)

\* C14 witness: the returned list holds two different hypotheses of the same
\* severity and confidence.
C14_Witness ==
    /\ called
    /\ \E i, j \in 1..Len(root_causes) :
           /\ i < j
           /\ root_causes[i].severity = root_causes[j].severity
           /\ root_causes[i].confidence = root_causes[j].confidence
           /\ root_causes[i] # root_causes[j]

C17_BuildIdempotent ==
    [][(builds' = builds + 1 /\ services' = services)
          => /\ dependency_graph'.nodes = dependency_graph.nodes
             /\ dependency_graph'.edges = dependency_graph.edges]_vars

\* C17 witness: after two build calls, the last with the diamond, the graph
\* is the diamond and nothing else.
C17_Witness ==
    /\ builds = 2
    /\ services = Diamond
    /\ dependency_graph = Described(Diamond)

Within(ts, t) ==
    /\ ts # NaT /\ t # NaT
    /\ t - ts <= temporal_window /\ ts - t <= temporal_window

\* C19: when no event row is critical, or no critical event has an anomaly
\* or an error inside its window, the call returns the empty list and does
\* not raise, whichever tables are empty.
C19_EmptyResultNotError ==
    LET critical == {i \in 1..Len(events) :
                        events[i].type = "Warning" \/ events[i].reason \in critical_types}
        evidence(i) ==
            \E r \in Range(DetectMetricAnomalies(metrics)) \cup Range(ExtractLogErrors(logs)) :
                Within(r.timestamp, events[i].timestamp)
    IN  ((called \/ raised) /\ \A i \in critical : ~evidence(i))
            => ~raised /\ root_causes = <<>>

\* The metric columns that hold numbers of more than one value.
SoundColumns(table) ==
    SelectSeq(table.columns,
              LAMBDA c : /\ ColumnValues(table, c) # <<>>
                         /\ ScaledVariance(ColumnValues(table, c)) # 0)

\* The rows that have a timestamp.
Timed(rows) == SelectSeq(rows, LAMBDA r : r.timestamp # NaT)

\* C20: when the only flaws of the tables are metric columns that hold no
\* number or a single value and records without a timestamp (a table
\* without the timestamp column has records, none of them with a timestamp),
\* the call does not raise and returns what it returns for the tables
\* without those columns and without those log and event records.
C20_ExtractionProblemsSkipped ==
    LET records_only ==
            /\ ~timestamp_column.logs => logs # <<>>
            /\ ~timestamp_column.metrics => metrics.rows # <<>>
            /\ ~timestamp_column.events => events # <<>>
    IN  ((called \/ raised) /\ records_only /\ ~ToDatetimeRaises(logs, metrics, events))
        => /\ ~raised
           /\ root_causes =
                  CorrelateEvents(dependency_graph, Timed(logs),
                                  [metrics EXCEPT !.columns = SoundColumns(metrics)],
                                  Timed(events))

----------------------------------------------------------------------------
(* C21 *)

\* The event of the scenario: a crash-looping pod payment-x.
ScenarioEvent(row) ==
    /\ row.type = "Warning"
    /\ row.reason = "PodCrashLoopBackOff"
    /\ row.object = <<"pod", "payment-x">>

\* The scenario: the one event, no log error, one metric anomaly within five
\* minutes of the event, and a topology that does not know payment-x.
Scenario ==
    /\ Len(events) = 1
    /\ ScenarioEvent(events[1])
    /\ ExtractLogErrors(logs) = <<>>
    /\ Len(SelectSeq(DetectMetricAnomalies(metrics),
                     LAMBDA a : Within(a.timestamp, events[1].timestamp))) = 1
    /\ "payment-x" \notin dependency_graph.nodes

\* C21: for the one critical event Warning/PodCrashLoopBackOff on pod/payment-x
\* with exactly one metric anomaly inside its 5-minute window, no log error
\* and a service the graph does not know, correlate_events returns exactly
\* one hypothesis, with root cause payment-x, confidence at least 0.4 and
\* severity critical.
C21_CrashLoopScenario ==
    (called /\ Scenario)
        => /\ Len(root_causes) = 1
           /\ root_causes[1].root_cause = "payment-x"
           /\ root_causes[1].confidence >= 4
           /\ root_causes[1].severity = "critical"

\* The scenario has been correlated on a built topology, which does not know
\* payment-x, and one hypothesis came back.
C21_Witness ==
    /\ called
    /\ Scenario
    /\ dependency_graph # EmptyGraph
    /\ Len(root_causes) = 1

----------------------------------------------------------------------------
(* C22 *)

\* The segment of an object reference behind its last '/'; "unknown" for a
\* reference without '/' and for an event that has none.
SegmentAfterLastSlash(object) ==
    IF object # NaN /\ Len(object) >= 2 THEN object[Len(object)] ELSE "unknown"

\* C22: once correlate_events has run on tables it can convert, every critical
\* event with evidence has its hypothesis, whose affected_service is the
\* segment of the event's object reference after its last '/', and "unknown"
\* when the reference is absent or holds no '/'.
C22_AffectedServiceFromObject ==
    ((called \/ raised)
        /\ ~TimestampKeyError(timestamp_column)
        /\ ~ToDatetimeRaises(logs, metrics, events))
        => \A i \in CriticalRowsWithEvidence :
               \E h \in Hypotheses :
                   /\ h.event.object = events[i].object
                   /\ h.event.timestamp = events[i].timestamp
                   /\ h.affected_service = SegmentAfterLastSlash(events[i].object)

----------------------------------------------------------------------------
(* C23 *)

\* The reason codes that make an event critical whatever its type.
CriticalReasons ==
    {"PodCrashLoopBackOff", "PodEvicted", "NodeNotReady", "FailedScheduling",
     "ImagePullBackOff"}

\* The positions of the event records that qualify as critical.
Qualifying ==
    {i \in 1..Len(events) :
        events[i].type = "Warning" \/ events[i].reason \in CriticalReasons}

\* The k-th of a set of positions, in increasing order.
KthOf(S, k) == CHOOSE i \in S : Cardinality({j \in S : j < i}) = k - 1

\* C23: the critical events are the event records whose type is Warning or
\* whose reason is one of the five critical reason codes, one per such record
\* and in input order; the severity of a critical event is critical when its
\* reason is one of the five and high otherwise, and every hypothesis is
\* about one of them and has its severity.
C23_CriticalEventsClassified ==
    LET critical_events == FindCriticalEvents(events)
        expected(row) == [timestamp |-> row.timestamp, type |-> row.type,
                          reason |-> row.reason, object |-> row.object,
                          severity |-> IF row.reason \in CriticalReasons
                                       THEN "critical" ELSE "high"]
    IN  /\ Len(critical_events) = Cardinality(Qualifying)
        /\ \A k \in 1..Len(critical_events) :
               critical_events[k] = expected(events[KthOf(Qualifying, k)])
        /\ called =>
               \A h \in Hypotheses :
                   \E i \in Qualifying :
                       /\ h.event = expected(events[i])
                       /\ h.severity = expected(events[i]).severity

\* Three event records have been correlated: the second does not qualify, the
\* first qualifies by its type alone and the third by its reason alone, and
\* the two hypotheses are theirs.
C23_Witness ==
    /\ called
    /\ Len(events) = 3
    /\ Qualifying = {1, 3}
    /\ events[1].type = "Warning" /\ events[1].reason \notin CriticalReasons
    /\ events[3].type = "Normal" /\ events[3].reason \in CriticalReasons
    /\ {h.severity : h \in Hypotheses} = {"critical", "high"}

----------------------------------------------------------------------------
(* C24 *)

ErrorKeywords ==
    {"error", "exception", "failed", "timeout", "crash", "panic", "fatal", "critical"}

\* The positions of the log records whose lower-cased message holds a keyword.
Matching ==
    {i \in 1..Len(logs) : \E kw \in ErrorKeywords : Contains(Lower(logs[i].message), kw)}

\* A message that holds nothing but severity phrases outside the keywords.
OnlySeverityPhrases(message) ==
    message # {} /\ Lower(message) \subseteq {"out of memory", "connection refused"}

\* C24: the error records are those of the log records whose lower-cased
\* message holds at least one of the eight keywords, one per such record
\* however many keywords it holds; a record whose message holds only "out of
\* memory" or "connection refused" yields none, and the related errors of
\* every hypothesis are such records.
C24_ErrorRecordPerMatchingRow ==
    LET errors == ExtractLogErrors(logs)
    IN  /\ Len(errors) = Cardinality(Matching)
        /\ \A k \in 1..Len(errors) :
               LET row == logs[KthOf(Matching, k)]
               IN  /\ errors[k].timestamp = row.timestamp
                   /\ errors[k].service = row.service
                   /\ errors[k].message = row.message
        /\ \A i \in 1..Len(logs) :
               OnlySeverityPhrases(logs[i].message)
                   => \A e \in Range(errors) : e.message # logs[i].message
        /\ called =>
               \A h \in Hypotheses : \A e \in Range(h.related_errors) :
                   \E i \in Matching : e.message = logs[i].message

\* Two log records have been correlated: the first holds two keywords and has
\* one error record, the second holds only a severity phrase and has none.
C24_Witness ==
    /\ called
    /\ Len(logs) = 2
    /\ logs[1].message = {"error", "timeout"}
    /\ OnlySeverityPhrases(logs[2].message)
    /\ Len(root_causes) = 1
    /\ Len(root_causes[1].related_errors) = 1

----------------------------------------------------------------------------
(* C25 *)

CriticalPhrases == {"fatal", "panic", "crash", "out of memory"}

HighPhrases == {"timeout", "connection refused", "database error"}

\* The severity a message has by the priority critical > high > medium.
SeverityByPriority(message) ==
    IF \E p \in CriticalPhrases : Contains(Lower(message), p) THEN "critical"
    ELSE IF \E p \in HighPhrases : Contains(Lower(message), p) THEN "high"
    ELSE "medium"

\* C25: an error record is critical if its message holds fatal, panic, crash
\* or out of memory, else high if it holds timeout, connection refused or
\* database error, else medium; so a message with a critical and a high
\* phrase is critical.  The same holds of the related errors of a hypothesis.
C25_ErrorSeverityByPriority ==
    /\ \A e \in Range(ExtractLogErrors(logs)) :
           e.severity = SeverityByPriority(e.message)
    /\ called =>
           \A h \in Hypotheses : \A e \in Range(h.related_errors) :
               e.severity = SeverityByPriority(e.message)

\* A hypothesis stands on an error whose message holds a critical and a high
\* phrase, and the error is critical.
C25_Witness ==
    /\ called
    /\ \E h \in Hypotheses : \E e \in Range(h.related_errors) :
           /\ \E p \in CriticalPhrases : Contains(Lower(e.message), p)
           /\ \E p \in HighPhrases : Contains(Lower(e.message), p)
           /\ e.severity = "critical"

----------------------------------------------------------------------------
(* C26 *)

\* The valid samples of a column of the metrics table, in row order.
Samples(c) ==
    LET present == SelectSeq(metrics.rows, LAMBDA r : r.vals[c] # NaN)
    IN  [i \in 1..Len(present) |-> present[i].vals[c][1]]

\* Whether v is strictly greater than mean + k * std of the samples s, std
\* being the population deviation: with n samples of sum S and sum of squares
\* Q, std = sqrt(n * Q - S * S) / n, and v - mean = (n * v - S) / n.
Above(s, v, k) ==
    LET n == Len(s)
        S == SumSeq(s)
        Q == SumSeq([i \in 1..n |-> s[i] * s[i]])
    IN  n * v - S > 0 /\ (n * v - S) * (n * v - S) > k * k * (n * Q - S * S)

\* Whether every sample of s is the same.
ZeroVariance(s) == \A i, j \in 1..Len(s) : s[i] = s[j]

\* C26: the anomaly records of a column with a valid sample and non-zero
\* deviation are its samples strictly greater than mean + 3 * std, in row
\* order; such a record is high when the sample is strictly greater than
\* mean + 5 * std and medium otherwise; a column with zero variance or without
\* valid samples has no anomaly record.  The related anomalies of every
\* hypothesis are such records.
C26_ThreeSigmaRule ==
    LET anomalies == DetectMetricAnomalies(metrics)
        rule(s, a) == /\ Above(s, a.value, 3)
                      /\ a.severity = IF Above(s, a.value, 5) THEN "high" ELSE "medium"
    IN  /\ \A c \in Range(metrics.columns) :
               LET s == Samples(c)
                   of_column == SelectSeq(anomalies, LAMBDA a : a.metric = c)
                   flagged == SelectSeq(s, LAMBDA v : Above(s, v, 3))
               IN  IF Len(s) = 0 \/ ZeroVariance(s) THEN of_column = <<>>
                   ELSE /\ Len(of_column) = Len(flagged)
                        /\ \A j \in 1..Len(flagged) :
                               /\ of_column[j].value = flagged[j]
                               /\ rule(s, of_column[j])
        /\ \A a \in Range(anomalies) : a.metric \in Range(metrics.columns)
        /\ called =>
               \A h \in Hypotheses : \A a \in Range(h.related_anomalies) :
                   a.metric \in Range(metrics.columns) /\ rule(Samples(a.metric), a)

\* A hypothesis stands on an anomaly above five deviations, in a table that
\* also has rows without a sample.
C26_Witness ==
    /\ called
    /\ \E h \in Hypotheses : \E a \in Range(h.related_anomalies) :
           /\ a.severity = "high"
           /\ Len(Samples(a.metric)) < Len(metrics.rows)

----------------------------------------------------------------------------
(* C27 *)

\* The reason-code rules in their order: the part of a reason code each looks
\* for, the reason codes that hold it and the text it gives.
ReasonRules ==
    <<[key |-> "CrashLoopBackOff", reasons |-> {"CrashLoopBackOff", "PodCrashLoopBackOff"},
       text |-> "Check pod logs for startup errors"],
      [key |-> "Evicted", reasons |-> {"Evicted", "PodEvicted"},
       text |-> "Pod was evicted due to resource pressure"],
      [key |-> "NotReady", reasons |-> {"NotReady", "NodeNotReady"},
       text |-> "Node is not ready"],
      [key |-> "FailedScheduling", reasons |-> {"FailedScheduling"},
       text |-> "Pod cannot be scheduled"]>>

\* The rules that match a reason code.
MatchingRules(reason) == {k \in 1..Len(ReasonRules) : reason \in ReasonRules[k].reasons}

\* C27: the recommendation of a hypothesis is that of the first reason-code
\* rule its event's reason matches, whatever evidence it has; when no rule
\* matches it cites the metric of the first related anomaly if there is one,
\* otherwise the message of the first related error, otherwise it is the
\* generic text.  A hypothesis always has evidence, so the generic text is
\* what an event would get that had none.
C27_RecommendationRuleOrder ==
    /\ called =>
        \A h \in Hypotheses :
            LET rules == MatchingRules(h.event.reason)
            IN  IF rules # {}
                THEN /\ h.recommendation.text = ReasonRules[KthOf(rules, 1)].text
                     /\ h.recommendation.metric = ""
                     /\ h.recommendation.message = {}
                ELSE IF h.related_anomalies # <<>>
                THEN /\ h.recommendation.text = "Metric anomaly detected"
                     /\ h.recommendation.metric = h.related_anomalies[1].metric
                     /\ h.recommendation.message = {}
                ELSE /\ h.related_errors # <<>>
                     /\ h.recommendation.text = "Error in logs"
                     /\ h.recommendation.metric = ""
                     /\ h.recommendation.message = h.related_errors[1].message
    /\ \A i \in 1..Len(events) :
           MatchingRules(events[i].reason) = {}
               => GenerateRecommendation(events[i], <<>>, <<>>).text
                      = "Investigate service health and dependencies"

\* A hypothesis with a related anomaly and a related error whose event was
\* evicted: the reason code decides.
C27_Witness ==
    /\ called
    /\ \E h \in Hypotheses :
           /\ h.event.reason = "PodEvicted"
           /\ h.related_anomalies # <<>>
           /\ h.related_errors # <<>>
           /\ h.recommendation.text = "Pod was evicted due to resource pressure"

----------------------------------------------------------------------------
(* C28 *)

\* The rows of the metrics table whose sample of column c is flagged.
FlaggedRows(c) ==
    {i \in 1..Len(metrics.rows) :
        /\ metrics.rows[i].vals[c] # NaN
        /\ Above(Samples(c), metrics.rows[i].vals[c][1], 3)}

\* C28: once correlate_events has run, every anomaly record of a column
\* carries the timestamp of the row whose sample was flagged, also when rows
\* before it have no valid sample in the column; so a related anomaly of a
\* hypothesis has the timestamp of a row that holds its value.
C28_AnomalyStampedWithItsRow ==
    called =>
        /\ \A c \in Range(metrics.columns) :
               LET of_column == SelectSeq(DetectMetricAnomalies(metrics),
                                          LAMBDA a : a.metric = c)
               IN  \A j \in 1..Len(of_column) :
                       /\ j <= Cardinality(FlaggedRows(c))
                       /\ of_column[j].timestamp
                              = metrics.rows[KthOf(FlaggedRows(c), j)].timestamp
        /\ \A h \in Hypotheses : \A a \in Range(h.related_anomalies) :
               \E i \in 1..Len(metrics.rows) :
                   /\ metrics.rows[i].timestamp = a.timestamp
                   /\ metrics.rows[i].vals[a.metric] = <<a.value>>

----------------------------------------------------------------------------
(* C29 *)

\* Whether the supplied anomaly a is more severe than the supplied anomaly b:
\* by the number when both carry one (none given counts as 0), by the rank
\* critical > high > medium > low when both carry a text.
MoreSevere(a, b) ==
    LET ka == SeverityKey(a)
        kb == SeverityKey(b)
    IN  \/ ka.kind = "number" /\ kb.kind = "number" /\ ka.number > kb.number
        \/ ka.kind = "text" /\ kb.kind = "text"
               /\ SeverityRank(ka.text) > SeverityRank(kb.text)

\* The fallback result of the analysis the step ends with.
FallbackResult(result) ==
    IF result.anomalies # <<>>
    THEN /\ result.confidence = 6
         /\ \E i \in 1..Len(result.anomalies) :
                /\ \A j \in 1..Len(result.anomalies) :
                       ~MoreSevere(result.anomalies[j], result.anomalies[i])
                /\ result.related_anomalies = <<result.anomalies[i]>>
                /\ result.root_cause = FallbackRootCause(result.anomalies[i].metric)
    ELSE /\ result.root_cause = "unknown"
         /\ result.confidence = 3
         /\ result.severity = TextSeverity("low")

\* C29: a call of analyze_incident returns and never raises; when the engine
\* returned no hypothesis, as it does for an incident without events, or
\* raised, the result is the fallback: confidence 0.6 and the worst supplied
\* anomaly as root cause when anomalies are supplied, else root cause unknown,
\* confidence 0.3 and severity low.
C29_AnalyzeNeverRaises ==
    [][inference' # inference
          => /\ inference'.state = "returned"
             /\ (events' = <<>> /\ ~raised') => root_causes' = <<>>
             /\ root_causes' = <<>> => FallbackResult(inference')]_vars

----------------------------------------------------------------------------
(* C30 *)

\* The position in the ranked list of the hypothesis with the greatest
\* confidence, the earliest on ties.
MostConfident(hyps) ==
    CHOOSE i \in 1..Len(hyps) :
        /\ \A j \in 1..Len(hyps) : hyps[j].confidence <= hyps[i].confidence
        /\ \A j \in 1..Len(hyps) : hyps[j].confidence = hyps[i].confidence => i <= j

\* Whether the result reports the hypothesis h.
Reports(result, h) ==
    /\ result.root_cause = h.root_cause
    /\ result.confidence = h.confidence
    /\ result.severity = TextSeverity(h.severity)
    /\ result.affected_service = h.affected_service

\* C30 as claimed: when the engine returned hypotheses, analyze_incident
\* reports the one with the maximum confidence in all_root_causes, the
\* earliest in ranked order on ties, and that is the first element of
\* all_root_causes.
C30_BestIsFirstRanked ==
    (inference.state = "returned" /\ inference.all_root_causes # <<>>)
        => LET hyps == inference.all_root_causes
           IN  /\ Reports(inference, hyps[MostConfident(hyps)])
               /\ Reports(inference, hyps[1])

\* C30, amended: when the engine returned hypotheses, analyze_incident reports
\* the one with the maximum confidence in all_root_causes, the earliest in
\* ranked order on ties; that is the first element of all_root_causes when
\* all hypotheses have the same severity.
C30_BestIsMostConfident ==
    (inference.state = "returned" /\ inference.all_root_causes # <<>>)
        => LET hyps == inference.all_root_causes
           IN  /\ Reports(inference, hyps[MostConfident(hyps)])
               /\ (\A i, j \in 1..Len(hyps) : hyps[i].severity = hyps[j].severity)
                      => /\ MostConfident(hyps) = 1
                         /\ Reports(inference, hyps[1])

\* A result over two hypotheses of one severity and different confidence: the
\* first of the list is reported.
C30_Witness ==
    /\ inference.state = "returned"
    /\ Len(inference.all_root_causes) = 2
    /\ inference.all_root_causes[1].severity = inference.all_root_causes[2].severity
    /\ inference.all_root_causes[1].confidence > inference.all_root_causes[2].confidence
    /\ Reports(inference, inference.all_root_causes[1])

====
